---- MODULE Spec2Model ----
(***************************************************************************)
(* Model of the hybrid retrieval engine of openclaw-memory-pro:            *)
(* MemoryRetriever.retrieve and its scoring pipeline (src/src/retriever.ts)*)
(* over the LanceDB-backed MemoryStore search methods, the singleton       *)
(* MemoryLogger's performance timers, and the plugin's environment         *)
(* variable resolution.                                                    *)
(*                                                                         *)
(* Numbers.  Scores, weights and multipliers are IEEE doubles in the       *)
(* source.  Here they are fixed-point integers in units of 1/ONE, products *)
(* are rounded down, and NaN is the distinguished value NaN that every     *)
(* arithmetic operator propagates and every comparison rejects, as in JS.  *)
(***************************************************************************)
EXTENDS Integers, Sequences, FiniteSets, TLC

\* ------------------------------------------------------------------------
\* Bounds of the model
\* ------------------------------------------------------------------------
MaxRows == 2
MaxLimit == 2
MaxClock == 2

\* ------------------------------------------------------------------------
\* Fixed-point arithmetic
\* ------------------------------------------------------------------------
ONE == 10000
NaN == -999999999

IsNaN(x) == x = NaN

Min2(a, b) == IF a <= b THEN a ELSE b
Max2(a, b) == IF a >= b THEN a ELSE b
Abs(a) == IF a < 0 THEN -a ELSE a

\* a * b of two fixed-point numbers
FMul(a, b) == IF IsNaN(a) \/ IsNaN(b) THEN NaN ELSE (a * b) \div ONE
\* a + b
FAdd(a, b) == IF IsNaN(a) \/ IsNaN(b) THEN NaN ELSE a + b
\* a / b (b # 0)
FDiv(a, b) == IF IsNaN(a) \/ IsNaN(b) THEN NaN ELSE (a * ONE) \div b
\* a >= b as JS evaluates it: false when either side is NaN
GE(a, b) == ~IsNaN(a) /\ ~IsNaN(b) /\ a >= b
GT(a, b) == ~IsNaN(a) /\ ~IsNaN(b) /\ a > b
LT(a, b) == ~IsNaN(a) /\ ~IsNaN(b) /\ a < b

\* e^-1 in fixed point
EInv == 3679

RECURSIVE PowEInv(_)
\* e^-n for a natural n
PowEInv(n) == IF n = 0 THEN ONE
              ELSE IF n > 12 THEN 0
              ELSE FMul(EInv, PowEInv(n - 1))

\* e^-f for 0 <= f < ONE, by the Taylor series to the sixth power
ExpNegFrac(f) ==
  LET t2 == (f * f) \div ONE
      t3 == (t2 * f) \div ONE
      t4 == (t3 * f) \div ONE
      t5 == (t4 * f) \div ONE
      t6 == (t5 * f) \div ONE
  IN ONE - f + (t2 \div 2) - (t3 \div 6) + (t4 \div 24) - (t5 \div 120) + (t6 \div 720)

\* Math.exp(-x) for a fixed-point x of either sign
ExpNeg(x) ==
  IF x >= 0
    THEN FMul(PowEInv(x \div ONE), ExpNegFrac(x % ONE))
    ELSE LET p == FMul(PowEInv((-x) \div ONE), ExpNegFrac((-x) % ONE))
         IN IF p = 0 THEN ONE * ONE ELSE (ONE * ONE) \div p

RECURSIVE Log2Floor(_)
\* floor(log2(r / ONE)) for r >= ONE
Log2Floor(r) == IF r < 2 * ONE THEN 0 ELSE 1 + Log2Floor(r \div 2)

RECURSIVE Pow2(_)
Pow2(k) == IF k = 0 THEN 1 ELSE 2 * Pow2(k - 1)

\* Math.log2(r) for a fixed-point r >= ONE: the integer part exactly, the
\* fractional part by the interpolation log2(1 + u) ~ (4u - u^2) / 3
Log2(r) ==
  LET k == Log2Floor(r)
      m == r \div Pow2(k)
      u == m - ONE
  IN k * ONE + (4 * u - (u * u) \div ONE) \div 3

\* ------------------------------------------------------------------------
\* Sequences
\* ------------------------------------------------------------------------
Range(s) == {s[i] : i \in 1..Len(s)}

\* s.slice(0, n)
Take(s, n) == SubSeq(s, 1, Min2(Len(s), n))

\* s with the element at position i removed (splice(i, 1))
RemoveAt(s, i) == SubSeq(s, 1, i - 1) \o SubSeq(s, i + 1, Len(s))

\* the orderings (as sequences of positions) of the positions 1..n
Orderings(n) == {p \in [1..n -> 1..n] : \A i, j \in 1..n : i # j => p[i] # p[j]}

\* ------------------------------------------------------------------------
\* Stored rows (MemoryEntry plus what LanceDB reports for the query)
\* ------------------------------------------------------------------------
NullScope == "<null>"
Now == 1000

\* text is kept as its length and the noise pattern it matches, if any
PlainText(n) == [len |-> n, kind |-> "plain"]

\* the text column of a row that was written without one (null)
NoText == [len |-> -1, kind |-> "null"]

Row(id, scope, category, importance, timestamp, text, distance, ftsHit, ftsScore) ==
  [id |-> id, scope |-> scope, category |-> category, importance |-> importance,
   timestamp |-> timestamp, text |-> text, metadata |-> "{}",
   distance |-> distance, ftsHit |-> ftsHit, ftsScore |-> ftsScore]

\* the rows a table is populated from: two variants for each id
Catalogue ==
  { Row(1, "global",  "fact",       ONE,  Now,       PlainText(100),  1111,  FALSE, 0),
    Row(1, NullScope, "fact",       ONE,  Now + 14,
        [len |-> 3, kind |-> "boilerplate"],                          0,     TRUE,  50000),
    Row(2, "global",  "fact",       ONE,  Now,       PlainText(400),  1111,  FALSE, 0),
    Row(2, "agent:a", "preference", ONE,  Now,       PlainText(400),  2500,  TRUE,  147250),
    Row(3, "agent:a", "preference", 5000, Now - 30,  PlainText(105),  1111,  TRUE,  0),
    Row(3, NullScope, "preference", 0,    Now - 400, PlainText(2000), 30000, TRUE,  147250) }

Ids == {r.id : r \in Catalogue}

RECURSIVE SeqOfSet(_)
\* the rows of a set in ascending id order (the order they were stored in)
SeqOfSet(S) ==
  IF S = {} THEN <<>>
  ELSE LET r == CHOOSE x \in S : \A y \in S : x.id <= y.id
       IN <<r>> \o SeqOfSet(S \ {r})

\* the tables the store can hold: at most MaxRows rows with distinct ids
Tables ==
  { SeqOfSet(S) : S \in { T \in SUBSET Catalogue :
        /\ Cardinality(T) <= MaxRows
        /\ \A x, y \in T : x.id = y.id => x = y } }

\* ------------------------------------------------------------------------
\* MemoryStore search (retriever.ts, store section)
\* ------------------------------------------------------------------------
clampInt(value, min, max) == Min2(max, Max2(min, value))

\* the SQL predicate "(scope = 's1' OR ...) OR scope IS NULL"
ScopeWhere(row, scopeFilter) ==
  row.scope \in Range(scopeFilter) \/ row.scope = NullScope

\* row.scope ?? "global"
RowScope(row) == IF row.scope = NullScope THEN "global" ELSE row.scope

\* the MemoryEntry a search result carries for a row
EntryOf(row) ==
  [id |-> row.id, text |-> row.text, category |-> row.category,
   scope |-> RowScope(row), importance |-> row.importance,
   timestamp |-> row.timestamp]

\* the answers LanceDB can give: the rows that satisfy the predicate, ordered
\* by their keys (ascending), rows of equal key in any order, cut to fetchLimit
LanceQuery(rows, keys, fetchLimit) ==
  { Take([i \in 1..Len(rows) |-> rows[p[i]]], fetchLimit) :
      p \in { q \in Orderings(Len(rows)) :
                \A i, j \in 1..Len(rows) : i < j => keys[q[i]] <= keys[q[j]] } }

\* score = 1 / (1 + distance)
VectorScore(row) == (ONE * ONE) \div (ONE + row.distance)

RECURSIVE VectorMap_NoScopeCheck(_, _, _, _, _)
\* vectorSearch relying on the SQL predicate alone
VectorMap_NoScopeCheck(results, mapped, safeLimit, minScore, scopeFilter) ==
  IF results = <<>> \/ Len(mapped) >= safeLimit THEN mapped
  ELSE LET row == Head(results)
           score == VectorScore(row)
       IN VectorMap_NoScopeCheck(Tail(results),
                    IF score < minScore THEN mapped
                    ELSE Append(mapped, [entry |-> EntryOf(row), score |-> score]),
                    safeLimit, minScore, scopeFilter)

RECURSIVE VectorMap(_, _, _, _, _)
\* the loop of vectorSearch over the rows LanceDB returned
VectorMap(results, mapped, safeLimit, minScore, scopeFilter) ==
  IF results = <<>> \/ Len(mapped) >= safeLimit THEN mapped
  ELSE LET row == Head(results)
           score == VectorScore(row)
           skip == \/ score < minScore
                   \/ (Len(scopeFilter) > 0 /\ RowScope(row) \notin Range(scopeFilter))
       IN VectorMap(Tail(results),
                    IF skip THEN mapped
                    ELSE Append(mapped, [entry |-> EntryOf(row), score |-> score]),
                    safeLimit, minScore, scopeFilter)

\* MemoryStore.vectorSearch: the result lists it can return
vectorSearch(tbl, limit, minScore, scopeFilter) ==
  LET safeLimit == clampInt(limit, 1, 20)
      fetchLimit == Min2(safeLimit * 10, 200)
      Where(row) == Len(scopeFilter) > 0 => ScopeWhere(row, scopeFilter)
      rows == SelectSeq(tbl, Where)
      distances == [i \in 1..Len(rows) |-> rows[i].distance]
  IN { VectorMap(res, <<>>, safeLimit, minScore, scopeFilter) :
         res \in LanceQuery(rows, distances, fetchLimit) }

\* the sigmoid 1 / (1 + exp(-rawScore / 5)), 0.5 for a non-positive raw score
Bm25Normalize(rawScore) ==
  IF rawScore > 0 THEN (ONE * ONE) \div (ONE + ExpNeg(rawScore \div 5)) ELSE ONE \div 2

RECURSIVE Bm25Map(_, _, _)
\* the loop of bm25Search over the rows the full-text query returned
Bm25Map(results, mapped, scopeFilter) ==
  IF results = <<>> THEN mapped
  ELSE LET row == Head(results)
           skip == Len(scopeFilter) > 0 /\ RowScope(row) \notin Range(scopeFilter)
       IN Bm25Map(Tail(results),
                  IF skip THEN mapped
                  ELSE Append(mapped, [entry |-> EntryOf(row),
                                       score |-> Bm25Normalize(row.ftsScore)]),
                  scopeFilter)

\* bm25Search handing on whatever rows there are although the query threw
bm25Search_NoFallback(tbl, ftsIndexCreated, ftsOk, limit, scopeFilter) ==
  LET safeLimit == clampInt(limit, 1, 20)
      Where(row) == row.ftsHit /\ (Len(scopeFilter) > 0 => ScopeWhere(row, scopeFilter))
      rows == SelectSeq(tbl, Where)
      descending == [i \in 1..Len(rows) |-> -rows[i].ftsScore]
  IN { Bm25Map(res, <<>>, scopeFilter) : res \in LanceQuery(rows, descending, safeLimit) }

\* MemoryStore.bm25Search: the result lists it can return.  ftsOk is false
\* when the full-text query throws, which the method turns into [].
bm25Search(tbl, ftsIndexCreated, ftsOk, limit, scopeFilter) ==
  IF ~ftsIndexCreated \/ ~ftsOk THEN {<<>>}
  ELSE LET safeLimit == clampInt(limit, 1, 20)
           Where(row) == row.ftsHit /\ (Len(scopeFilter) > 0 => ScopeWhere(row, scopeFilter))
           rows == SelectSeq(tbl, Where)
           descending == [i \in 1..Len(rows) |-> -rows[i].ftsScore]
       IN { Bm25Map(res, <<>>, scopeFilter) :
              res \in LanceQuery(rows, descending, safeLimit) }

\* ------------------------------------------------------------------------
\* Retrieval configuration and query classification (retriever.ts)
\* ------------------------------------------------------------------------
DEFAULT_RETRIEVAL_CONFIG ==
  [mode |-> "hybrid", vectorWeight |-> 7000, bm25Weight |-> 3000,
   minScore |-> 3000, rerank |-> "cross-encoder", candidatePoolSize |-> 20,
   recencyHalfLifeDays |-> 14, recencyWeight |-> 1000, filterNoise |-> TRUE,
   rerankApiKey |-> FALSE, rerankProvider |-> "jina",
   lengthNormAnchor |-> 500, hardMinScore |-> 3500,
   timeDecayHalfLifeDays |-> 60, dynamicWeights |-> TRUE]

\* the configurations a retriever is constructed with: the defaults (no
\* rerank key), the defaults with a rerank key for either response shape,
\* and a vector-only configuration with the optional stages switched off
Configs ==
  { DEFAULT_RETRIEVAL_CONFIG,
    [DEFAULT_RETRIEVAL_CONFIG EXCEPT !.rerankApiKey = TRUE],
    [DEFAULT_RETRIEVAL_CONFIG EXCEPT !.rerankApiKey = TRUE, !.rerankProvider = "pinecone",
                                     !.dynamicWeights = FALSE],
    [DEFAULT_RETRIEVAL_CONFIG EXCEPT !.mode = "vector", !.rerank = "none",
                                     !.filterNoise = FALSE, !.dynamicWeights = FALSE,
                                     !.recencyHalfLifeDays = 0, !.lengthNormAnchor = 0,
                                     !.timeDecayHalfLifeDays = 0] }

\* a query is kept as the outcome of the two pattern groups of the classifier
Queries == [hasSpecificTerms : BOOLEAN, hasAbstractTerms : BOOLEAN]

\* one query of each class
ClassQueries ==
  { [hasSpecificTerms |-> TRUE, hasAbstractTerms |-> TRUE],
    [hasSpecificTerms |-> FALSE, hasAbstractTerms |-> TRUE],
    [hasSpecificTerms |-> FALSE, hasAbstractTerms |-> FALSE] }

\* the classifier with the abstract rule checked first
computeDynamicWeights_AbstractFirst(query) ==
  IF query.hasAbstractTerms THEN [vectorWeight |-> 9000, bm25Weight |-> 1000]
  ELSE IF query.hasSpecificTerms THEN [vectorWeight |-> 5000, bm25Weight |-> 5000]
  ELSE [vectorWeight |-> 7000, bm25Weight |-> 3000]

computeDynamicWeights(query) ==
  IF query.hasSpecificTerms THEN [vectorWeight |-> 5000, bm25Weight |-> 5000]
  ELSE IF query.hasAbstractTerms THEN [vectorWeight |-> 9000, bm25Weight |-> 1000]
  ELSE [vectorWeight |-> 7000, bm25Weight |-> 3000]

\* ------------------------------------------------------------------------
\* Fusion (fuseAndScore, first part)
\* ------------------------------------------------------------------------
NoSource == <<>>
Source(score, rank) == <<[score |-> score, rank |-> rank]>>

\* position of the entry id in the insertion-ordered map, 0 when absent
IndexOfId(combined, id) ==
  IF \E i \in 1..Len(combined) : combined[i].entry.id = id
    THEN CHOOSE i \in 1..Len(combined) : combined[i].entry.id = id
    ELSE 0

\* a map that keeps one value per insertion instead of one per key
MapSet_Append(combined, id, value) == Append(combined, value)

\* Map.set: replaces the value of an existing key in place, else appends
MapSet(combined, id, value) ==
  LET i == IndexOfId(combined, id)
  IN IF i = 0 THEN Append(combined, value) ELSE [combined EXCEPT ![i] = value]

RECURSIVE FuseVector(_, _, _, _)
\* vectorResults.forEach((result, idx) => combined.set(...))
FuseVector(vectorResults, idx, weights, combined) ==
  IF idx > Len(vectorResults) THEN combined
  ELSE LET result == vectorResults[idx]
       IN FuseVector(vectorResults, idx + 1, weights,
            MapSet(combined, result.entry.id,
              [entry |-> result.entry,
               score |-> FMul(result.score, weights.vectorWeight),
               sources |-> [vector |-> Source(result.score, idx),
                            bm25 |-> NoSource, reranked |-> NoSource]]))

RECURSIVE FuseBm25_Overwrite(_, _, _, _)
\* fusion in which a lexical hit replaces the vector score instead of adding to it
FuseBm25_Overwrite(bm25Results, idx, weights, combined) ==
  IF idx > Len(bm25Results) THEN combined
  ELSE LET result == bm25Results[idx]
           i == IndexOfId(combined, result.entry.id)
       IN FuseBm25_Overwrite(bm25Results, idx + 1, weights,
            IF i # 0
              THEN [combined EXCEPT
                      ![i].score = FMul(result.score, weights.bm25Weight),
                      ![i].sources.bm25 = Source(result.score, idx)]
              ELSE Append(combined,
                     [entry |-> result.entry,
                      score |-> FMul(result.score, weights.bm25Weight),
                      sources |-> [vector |-> NoSource,
                                   bm25 |-> Source(result.score, idx),
                                   reranked |-> NoSource]]))

RECURSIVE FuseBm25(_, _, _, _)
\* bm25Results.forEach((result, idx) => ...)
FuseBm25(bm25Results, idx, weights, combined) ==
  IF idx > Len(bm25Results) THEN combined
  ELSE LET result == bm25Results[idx]
           i == IndexOfId(combined, result.entry.id)
       IN FuseBm25(bm25Results, idx + 1, weights,
            IF i # 0
              THEN [combined EXCEPT
                      ![i].score = FAdd(@, FMul(result.score, weights.bm25Weight)),
                      ![i].sources.bm25 = Source(result.score, idx)]
              ELSE Append(combined,
                     [entry |-> result.entry,
                      score |-> FMul(result.score, weights.bm25Weight),
                      sources |-> [vector |-> NoSource,
                                   bm25 |-> Source(result.score, idx),
                                   reranked |-> NoSource]]))

\* the weights fuseAndScore uses
FusionWeights(config, query) ==
  IF config.dynamicWeights THEN computeDynamicWeights(query)
  ELSE [vectorWeight |-> config.vectorWeight, bm25Weight |-> config.bm25Weight]

\* Array.from(combined.values()) after both forEach loops
Fuse(vectorResults, bm25Results, weights) ==
  FuseBm25(bm25Results, 1, weights, FuseVector(vectorResults, 1, weights, <<>>))

\* ------------------------------------------------------------------------
\* Scoring stages
\* ------------------------------------------------------------------------
\* (Date.now() - timestamp) / 86400000 / halfLifeDays, timestamps in days
AgeOver(timestamp, halfLifeDays) == ((Now - timestamp) * ONE) \div halfLifeDays

applyRecencyBoost(config, score, timestamp) ==
  IF config.recencyHalfLifeDays <= 0 THEN score
  ELSE LET boostFactor == FMul(ExpNeg(AgeOver(timestamp, config.recencyHalfLifeDays)),
                               config.recencyWeight)
       IN FMul(score, ONE + boostFactor)

applyImportance(score, importance) ==
  FMul(score, 7000 + FMul(3000, importance))

applyLengthNormalization(config, score, textLength) ==
  IF config.lengthNormAnchor <= 0 THEN score
  ELSE LET ratio == (textLength * ONE) \div config.lengthNormAnchor
           factor == FDiv(ONE, ONE + Log2(Max2(ONE, ratio)) \div 2)
       IN FMul(score, factor)

applyTimeDecay(config, score, timestamp) ==
  IF config.timeDecayHalfLifeDays <= 0 THEN score
  ELSE LET decayFactor == 5000 + FMul(5000, ExpNeg(AgeOver(timestamp, config.timeDecayHalfLifeDays)))
       IN FMul(score, decayFactor)

\* the map(...) of fuseAndScore with the time decay taken in place of the
\* length normalization
ScoreStages_DecayEarly(config, result) ==
  LET s1 == applyRecencyBoost(config, result.score, result.entry.timestamp)
      s2 == applyImportance(s1, result.entry.importance)
      s3 == applyTimeDecay(config, s2, result.entry.timestamp)
  IN [result EXCEPT !.score = s3]

\* the map(...) of fuseAndScore: recency, importance, length, in this order
ScoreStages(config, result) ==
  LET s1 == applyRecencyBoost(config, result.score, result.entry.timestamp)
      s2 == applyImportance(s1, result.entry.importance)
      s3 == applyLengthNormalization(config, s2, result.entry.text.len)
  IN [result EXCEPT !.score = s3]

\* ------------------------------------------------------------------------
\* Array.prototype.sort((a, b) => b.score - a.score)
\* ------------------------------------------------------------------------
RECURSIVE InsertDesc(_, _)
\* insert r behind every element that does not score less (stable)
InsertDesc(sorted, r) ==
  IF sorted = <<>> THEN <<r>>
  ELSE IF Head(sorted).score >= r.score THEN <<Head(sorted)>> \o InsertDesc(Tail(sorted), r)
  ELSE <<r>> \o sorted

RECURSIVE StableSortDesc(_, _)
StableSortDesc(results, sorted) ==
  IF results = <<>> THEN sorted
  ELSE StableSortDesc(Tail(results), InsertDesc(sorted, Head(results)))

\* The arrays sort can leave behind.  The sort is stable; when a score is NaN
\* the comparator is inconsistent and the order is implementation-defined.
SortByScore(results) ==
  IF \E i \in 1..Len(results) : IsNaN(results[i].score)
    THEN { [i \in 1..Len(results) |-> results[p[i]]] : p \in Orderings(Len(results)) }
    ELSE { StableSortDesc(results, <<>>) }

\* ------------------------------------------------------------------------
\* Reranking (applyReranking)
\* ------------------------------------------------------------------------
\* An item of a rerank response: a zero-based index (-1: none) and a score
\* (NaN: the field the parser reads is absent or not a number)
RerankItem(index, score) == [index |-> index, score |-> score]

\* What can come back from fetch for n documents: a rejected fetch, a non-2xx
\* status, a body that is not JSON or is null, or a JSON body of either
\* response shape with a list of items.
RerankResponses(n) ==
  { [status |-> st, shape |-> "none", items |-> <<>>] :
        st \in {"network_error", "http_error", "bad_json", "null_body"} }
  \cup
  { [status |-> "ok", shape |-> sh, items |-> <<RerankItem(0, 9000)>>] :
        sh \in {"jina", "pinecone"} }
  \cup
  { [status |-> "ok", shape |-> "jina", items |-> it] :
        it \in { <<>>,
                 <<RerankItem(n - 1, 9500), RerankItem(0, 1000)>>,
                 <<RerankItem(0, NaN)>>,
                 <<RerankItem(n, 5000)>>,
                 <<RerankItem(-1, 5000)>> } }

\* no response yet
NoResponse == [status |-> "none", shape |-> "none", items |-> <<>>]

\* the response shape the configured provider's parser reads
ProviderShape(rerankProvider) == IF rerankProvider = "pinecone" THEN "pinecone" ELSE "jina"

\* rerankScores: (data.data || []) or (data.results || []) mapped to {index, score}
ParseRerank(config, response) ==
  IF response.shape = ProviderShape(config.rerankProvider) THEN response.items ELSE <<>>

RECURSIVE ApplyRerankScores_Replace(_, _)
\* the external score taken as the new score, without the blend
ApplyRerankScores_Replace(results, rerankScores) ==
  IF rerankScores = <<>> THEN results
  ELSE LET item == Head(rerankScores)
           i == item.index + 1
       IN ApplyRerankScores_Replace(
            IF i \in 1..Len(results)
              THEN [results EXCEPT
                      ![i].sources.reranked = <<[score |-> item.score]>>,
                      ![i].score = item.score]
              ELSE results,
            Tail(rerankScores))

RECURSIVE ApplyRerankScores(_, _)
\* rerankScores.forEach(({index, score}) => { if (results[index]) ... })
ApplyRerankScores(results, rerankScores) ==
  IF rerankScores = <<>> THEN results
  ELSE LET item == Head(rerankScores)
           i == item.index + 1
       IN ApplyRerankScores(
            IF i \in 1..Len(results)
              THEN [results EXCEPT
                      ![i].sources.reranked = <<[score |-> item.score]>>,
                      ![i].score = FAdd(FMul(item.score, 6000), FMul(@, 4000))]
              ELSE results,
            Tail(rerankScores))

\* whether the try block of applyReranking throws for this response
RerankThrows(response) == response.status # "ok"

\* the arrays applyReranking can return once fetch has settled
RerankOutcomes(config, results, response) ==
  IF RerankThrows(response)
    THEN SortByScore(results)
    ELSE SortByScore(ApplyRerankScores(results, ParseRerank(config, response)))

\* ------------------------------------------------------------------------
\* Diversity selection (applyMMR, computeMaxSimilarity)
\* ------------------------------------------------------------------------
SimilarityThreshold == 8500

\* 1 - lenDiff / max(len, len); 0 / 0 is NaN
LengthSimilarity(a, b) ==
  LET lenDiff == Abs(a.entry.text.len - b.entry.text.len)
      maxLen == Max2(a.entry.text.len, b.entry.text.len)
  IN IF maxLen = 0 THEN NaN ELSE ONE - (lenDiff * ONE) \div maxLen

\* Math.max(a, b): NaN when either argument is
MathMax(a, b) == IF IsNaN(a) \/ IsNaN(b) THEN NaN ELSE Max2(a, b)

RECURSIVE computeMaxSimilarity(_, _)
computeMaxSimilarity(result, selected) ==
  IF selected = <<>> THEN 0
  ELSE MathMax(computeMaxSimilarity(result, SubSeq(selected, 1, Len(selected) - 1)),
               LengthSimilarity(result, selected[Len(selected)]))

RECURSIVE BestDiverse_NoThreshold(_, _, _, _, _)
\* the for loop taking the best remaining candidate whatever its similarity
BestDiverse_NoThreshold(remaining, selected, i, bestIdx, bestScore) ==
  IF i > Len(remaining) THEN bestIdx
  ELSE LET candidate == remaining[i]
           take == GT(candidate.score, bestScore)
       IN BestDiverse_NoThreshold(remaining, selected, i + 1,
                      IF take THEN i ELSE bestIdx,
                      IF take THEN candidate.score ELSE bestScore)

RECURSIVE BestDiverse(_, _, _, _, _)
\* the for loop of applyMMR: index of the best diverse candidate, 0 if none
BestDiverse(remaining, selected, i, bestIdx, bestScore) ==
  IF i > Len(remaining) THEN bestIdx
  ELSE LET candidate == remaining[i]
           take == /\ LT(computeMaxSimilarity(candidate, selected), SimilarityThreshold)
                   /\ GT(candidate.score, bestScore)
       IN BestDiverse(remaining, selected, i + 1,
                      IF take THEN i ELSE bestIdx,
                      IF take THEN candidate.score ELSE bestScore)

RECURSIVE MMRLoop(_, _, _)
MMRLoop(remaining, selected, total) ==
  IF ~(Len(remaining) > 0 /\ Len(selected) < total) THEN selected
  ELSE IF Len(selected) = 0 THEN MMRLoop(Tail(remaining), <<Head(remaining)>>, total)
  ELSE LET bestIdx == BestDiverse(remaining, selected, 1, 0, -ONE)
       IN IF bestIdx > 0
            THEN MMRLoop(RemoveAt(remaining, bestIdx), Append(selected, remaining[bestIdx]), total)
            ELSE selected

applyMMR(results) ==
  IF Len(results) <= 1 THEN results ELSE MMRLoop(results, <<>>, Len(results))

\* ------------------------------------------------------------------------
\* Noise filter and final processing
\* ------------------------------------------------------------------------
\* isNoise: shorter than 5 characters, or one of the three pattern groups
isNoise(text) == text.len < 5 \/ text.kind \in {"denial", "meta", "boilerplate"}

filterNoise(results) ==
  LET Keep(r) == ~isNoise(r.entry.text) IN SelectSeq(results, Keep)

\* final processing without the slice
applyFinalProcessing_NoSlice(config, results, limit) ==
  { IF config.filterNoise THEN filterNoise(sorted) ELSE sorted :
      sorted \in SortByScore(results) }

\* the arrays applyFinalProcessing can return
applyFinalProcessing(config, results, limit) ==
  { IF config.filterNoise THEN filterNoise(Take(sorted, limit)) ELSE Take(sorted, limit) :
      sorted \in SortByScore(results) }

\* ------------------------------------------------------------------------
\* State
\* ------------------------------------------------------------------------
\* the retrieve calls that can be in flight on the one MemoryRetriever
Calls == {1, 2}

TimerIds == {"MemoryRetriever:retrieve", "MemoryRetriever:rerank"}
Infinity == 999999999

VARIABLES
  table,            \* MemoryStore: the rows of the LanceDB table
  ftsIndexCreated,  \* MemoryStore.ftsIndexCreated
  config,           \* MemoryRetriever.config
  callers,          \* the calls the environment issues
  context,          \* per call: the RetrievalContext
  pc,               \* per call: where retrieve stands
  vectorResults,    \* per call: local of retrieve
  bm25Results,      \* per call: local of retrieve
  results,          \* per call: the results array of fuseAndScore / retrieve
  fetch,            \* per call: the rerank request, "none", "pending" or "lost"
  returned,         \* per call: the array retrieve resolved with
  rerankIn,         \* per call (history): results as passed to applyReranking
  rerankResponse,   \* per call (history): what fetch settled with
  cutoffDropped,    \* per call (history): ids removed by the hard cutoff
  lexical,          \* per call (history): how store.bm25Search went
  failedAt,         \* per call (history): the step whose error retrieve rethrew
  clock,            \* performance.now()
  perfTimers,       \* MemoryLogger.perfTimers (0: no entry)
  stats,            \* MemoryLogger.stats
  startedAt,        \* per call (history): clock when the call started
  duration,         \* per call: the duration perfEnd returned to retrieve
  processEnv,       \* process.env: the names that are set
  pluginConfig,     \* api.pluginConfig.embedding as written by the user
  registerPc,       \* where plugin registration stands
  parsedConfig,     \* the PluginConfig parsePluginConfig returned (embedding part)
  embedderConfig,   \* the EmbeddingConfig register passes to createEmbedder
  client,           \* the apiKey and baseURL the Embedder gives its OpenAI client
  queryText,        \* the prompt or query handed to the plugin, as characters
  skipDecision,     \* what shouldSkipRetrieval answered for it ("none": not asked)
  queryWeights,     \* what computeDynamicWeights returned for it
  updPc,            \* MemoryStore.update: where the call stands
  updReq,           \* MemoryStore.update: its arguments
  updRow,           \* MemoryStore.update: the row the lookup found
  updResult,        \* MemoryStore.update: what the call settled with
  tableBefore,      \* (history) the table when update was called
  memoryCache,      \* PersistentEmbeddingCache.memoryCache, in insertion order
  cacheDisk,        \* the rows of the embedding_cache table of the SQLite file
  cacheConfig,      \* PersistentEmbeddingCache.config
  cacheDb,          \* whether PersistentEmbeddingCache.db is set
  cacheInitialized, \* PersistentEmbeddingCache.initialized
  cacheOp,          \* (history) the last cache operation and what it did
  dateNow           \* Date.now(), in minutes

storeVars == <<table, ftsIndexCreated>>
callVars == <<context, pc, vectorResults, bm25Results, results, fetch, returned,
              rerankIn, rerankResponse, cutoffDropped, lexical, failedAt>>
logVars == <<clock, perfTimers, stats, startedAt, duration>>
envVars == <<processEnv, pluginConfig, registerPc, parsedConfig, embedderConfig, client>>
queryVars == <<queryText, skipDecision, queryWeights>>
updateVars == <<updPc, updReq, updRow, updResult, tableBefore>>
cacheVars == <<memoryCache, cacheDisk, cacheConfig, cacheDb, cacheInitialized, cacheOp, dateNow>>

VARIABLES
  tableOpen,        \* MemoryStore.table is set (not null)
  initPromise,      \* MemoryStore.initPromise: 0 for null, else the attempt it belongs to
  attempts,         \* the doInitialize calls made so far: where each one is
  opPc,             \* where each store operation is
  opAwaits          \* the attempt whose promise the operation awaits

initVars == <<tableOpen, initPromise, attempts, opPc, opAwaits>>

VARIABLES
  scopeDefinitions, \* MemoryScopeManager.config.definitions: the scopes defined
  agentAccess,      \* MemoryScopeManager.config.agentAccess: a list per agent, if any
  scopeOp           \* the last management call on the scope manager

scopeVars == <<scopeDefinitions, agentAccess, scopeOp>>

VARIABLES
  setPc,            \* where a call of PersistentEmbeddingCache.set is: idle, or in its loop
  setKey            \* the key that call is inserting

setVars == <<setPc, setKey>>

VARIABLES
  backupTimer,      \* the plugin's backupTimer: 0 for null, else a timer's handle
  liveTimers,       \* the timers of the event loop that are scheduled
  startPc,          \* where each call of the service's start is
  serviceStopped,   \* stop has been called, and start has not been called since
  backupRuns,       \* how many times runBackup has been started
  ranAfterStop      \* runBackup has been started while serviceStopped

serviceVars ==
  <<backupTimer, liveTimers, startPc, serviceStopped, backupRuns, ranAfterStop>>
moreVars == <<initVars, scopeVars, setVars, serviceVars>>
auxVars == <<queryVars, updateVars, cacheVars, moreVars>>
vars == <<storeVars, config, callers, callVars, logVars, envVars, auxVars>>

\* ------------------------------------------------------------------------
\* MemoryLogger performance tracking
\* ------------------------------------------------------------------------
\* perfStart: perfTimers.set(`${scope}:${operation}`, performance.now())
perfStart(timers, timerId, now) == [timers EXCEPT ![timerId] = now]

\* the number perfEnd returns: 0 for an unknown timer
perfEndDuration(timers, timerId, now) ==
  IF timers[timerId] = 0 THEN 0 ELSE now - timers[timerId]

\* perfEnd: perfTimers.delete(timerId)
perfEndTimers(timers, timerId) == [timers EXCEPT ![timerId] = 0]

trackRetrieval(st, durationMs) ==
  LET n == st.retrievalCount + 1
  IN [st EXCEPT !.retrievalCount = n,
                !.avgRetrievalTimeMs = (st.avgRetrievalTimeMs * (n - 1) + durationMs) \div n,
                !.minRetrievalTimeMs = Min2(st.minRetrievalTimeMs, durationMs),
                !.maxRetrievalTimeMs = Max2(st.maxRetrievalTimeMs, durationMs)]

\* trackRerank: rerankCost grows by count * COST_PER_RERANK (kept as the count)
trackRerank(st, count) == [st EXCEPT !.rerankCost = @ + count]

InitStats ==
  [retrievalCount |-> 0, avgRetrievalTimeMs |-> 0, minRetrievalTimeMs |-> Infinity,
   maxRetrievalTimeMs |-> 0, rerankCost |-> 0]

\* ------------------------------------------------------------------------
\* Environment variable resolution (index.ts plugin entry, env-resolver)
\* ------------------------------------------------------------------------
MaxTokens == 2

\* A configuration string is a sequence of tokens: literal text, a reference
\* ${NAME}, or the value of process.env[NAME] once substituted.
Lit == [kind |-> "lit", name |-> ""]
Ref(name) == [kind |-> "ref", name |-> name]
Val(name) == [kind |-> "val", name |-> name]

\* a field that is not a string
Absent == <<[kind |-> "absent", name |-> ""]>>

ALLOWED_ENV_VARS ==
  { "JINA_API_KEY", "OPENAI_API_KEY", "GEMINI_API_KEY", "SILICONFLOW_API_KEY",
    "PINECONE_API_KEY", "LITELLM_API_KEY", "IFLOW_API_KEY", "NVIDIA_API_KEY",
    "AZURE_OPENAI_API_KEY", "JINA_BASE_URL", "OPENAI_BASE_URL", "GEMINI_BASE_URL",
    "OLLAMA_BASE_URL", "OPENCLAW_MEMORY_PRO_DEBUG", "OPENCLAW_MEMORY_PRO_LOG_LEVEL" }

\* the names a configuration refers to: two allowed ones, one that matches a
\* blocked pattern (/^AWS_/i) and one that is in neither list
EnvNames == { "OPENAI_API_KEY", "JINA_BASE_URL", "AWS_SECRET_ACCESS_KEY", "HOME" }

\* BLOCKED_PATTERNS.some(pattern => pattern.test(varName)), over EnvNames
isBlocked(varName) == varName \in { "AWS_SECRET_ACCESS_KEY" }

isAllowed(varName) == varName \in ALLOWED_ENV_VARS

\* resolveEnvVar of the env-resolver with strict: false: the text that
\* replaces ${varName}
resolveEnvVar(env, varName) ==
  IF isBlocked(varName) THEN Ref(varName)
  ELSE IF ~isAllowed(varName) THEN Ref(varName)
  ELSE IF varName \notin env THEN Ref(varName)
  ELSE Val(varName)

\* resolveEnvVars of the env-resolver (strict: false)
resolveEnvVarsSafe(env, value) ==
  [i \in 1..Len(value) |->
     IF value[i].kind = "ref" THEN resolveEnvVar(env, value[i].name) ELSE value[i]]

\* whether resolveEnvVars of the plugin entry throws ("... is not set")
resolveEnvVarsThrows(env, value) ==
  \E i \in 1..Len(value) : value[i].kind = "ref" /\ value[i].name \notin env

\* resolveEnvVars of the plugin entry: every ${NAME} becomes process.env[NAME]
resolveEnvVars(env, value) ==
  [i \in 1..Len(value) |->
     IF value[i].kind = "ref" THEN Val(value[i].name) ELSE value[i]]

\* the strings a user can write into a field
ConfigStrings ==
  UNION { [1..n -> {Lit} \cup {Ref(name) : name \in EnvNames}] : n \in 1..MaxTokens }

\* ------------------------------------------------------------------------
\* Query text.  A string is the sequence of its UTF-16 code units, each kept
\* as a one-character string; a code unit outside ASCII is written U+XXXX.
\* ------------------------------------------------------------------------
MaxWords == 2

UpperChars == <<"A", "B", "C", "D", "E", "F", "G", "H", "I", "J", "K", "L", "M", "N", "O", "P", "Q", "R", "S", "T", "U", "V", "W", "X", "Y", "Z">>
LowerChars == <<"a", "b", "c", "d", "e", "f", "g", "h", "i", "j", "k", "l", "m", "n", "o", "p", "q", "r", "s", "t", "u", "v", "w", "x", "y", "z">>
DigitChars == {"0", "1", "2", "3", "4", "5", "6", "7", "8", "9"}

IsUpper(ch) == \E k \in 1..Len(UpperChars) : UpperChars[k] = ch
IsLower(ch) == \E k \in 1..Len(LowerChars) : LowerChars[k] = ch
IsDigit(ch) == ch \in DigitChars

\* \w of a regular expression without the u flag
IsWordChar(ch) == IsUpper(ch) \/ IsLower(ch) \/ IsDigit(ch) \/ ch = "_"

\* \s, over the characters the queries are made of
IsSpace(ch) == ch = " "

\* the case folding of the i flag, over the characters the queries are made of
ToLower(ch) ==
  IF IsUpper(ch) THEN LowerChars[CHOOSE k \in 1..Len(UpperChars) : UpperChars[k] = ch] ELSE ch

\* the character at position i, "" outside the string
CharAt(q, i) == IF i \in 1..Len(q) THEN q[i] ELSE ""

\* \b in front of position i: exactly one of the two neighbours is a \w
WordBoundary(q, i) == IsWordChar(CharAt(q, i - 1)) # IsWordChar(CharAt(q, i))

\* the literal lit stands at position i
MatchesAt(q, i, lit, ignoreCase) ==
  /\ i >= 1
  /\ i + Len(lit) - 1 <= Len(q)
  /\ \A k \in 1..Len(lit) :
        IF ignoreCase THEN ToLower(q[i + k - 1]) = ToLower(lit[k])
        ELSE q[i + k - 1] = lit[k]

\* /lit/.test(q)
Contains(q, lit, ignoreCase) == \E i \in 1..Len(q) : MatchesAt(q, i, lit, ignoreCase)

\* /\blit\b/.test(q)
ContainsWord(q, lit, ignoreCase) ==
  \E i \in 1..Len(q) :
     /\ WordBoundary(q, i)
     /\ MatchesAt(q, i, lit, ignoreCase)
     /\ WordBoundary(q, i + Len(lit))

\* /^lit\b/.test(q)
StartsWithWord(q, lit, ignoreCase) ==
  MatchesAt(q, 1, lit, ignoreCase) /\ WordBoundary(q, Len(lit) + 1)

\* \s*[.!]?$ matches from behind position n
EndsAfter(q, n) ==
  \E k \in 0..(Len(q) - n) :
     /\ \A j \in (n + 1)..(n + k) : IsSpace(q[j])
     /\ \/ n + k = Len(q)
        \/ n + k + 1 = Len(q) /\ q[Len(q)] \in {".", "!"}

\* /^lit\s*[.!]?$/i.test(q)
WholeMatch(q, lit) == MatchesAt(q, 1, lit, TRUE) /\ EndsAfter(q, Len(lit))

RECURSIVE TrimStart(_)
TrimStart(q) == IF q # <<>> /\ IsSpace(Head(q)) THEN TrimStart(Tail(q)) ELSE q

RECURSIVE TrimEnd(_)
TrimEnd(q) ==
  IF q # <<>> /\ IsSpace(q[Len(q)]) THEN TrimEnd(SubSeq(q, 1, Len(q) - 1)) ELSE q

\* String.prototype.trim
Trim(q) == TrimEnd(TrimStart(q))

\* ------------------------------------------------------------------------
\* computeDynamicWeights on the text of a query (retriever.ts)
\* ------------------------------------------------------------------------
\* the six patterns of hasSpecificTerms
hasSpecificTerms(q) ==
  \/ \E i \in 1..Len(q) : IsUpper(q[i]) /\ IsLower(CharAt(q, i + 1))
  \/ \E i \in 1..Len(q) :
        /\ i + 9 <= Len(q)
        /\ \A k \in {0, 1, 2, 3, 5, 6, 8, 9} : IsDigit(q[i + k])
        /\ q[i + 4] = "-" /\ q[i + 7] = "-"
  \/ \E i \in 1..Len(q) : q[i] = "@" /\ IsWordChar(CharAt(q, i + 1))
  \/ \E i \in 1..Len(q) : IsDigit(q[i])
  \/ Contains(q, <<"h", "t", "t", "p", ":", "/", "/">>, FALSE)
  \/ Contains(q, <<"h", "t", "t", "p", "s", ":", "/", "/">>, FALSE)
  \/ \E i \in 1..Len(q) : q[i] \in {"/", "\\"}

\* the alternatives of /\b(how|why|...)\b/i
AbstractKeywords ==
  { <<"h", "o", "w">>, <<"w", "h", "y">>, <<"w", "h", "a", "t">>,
    <<"e", "x", "p", "l", "a", "i", "n">>,
    <<"u", "n", "d", "e", "r", "s", "t", "a", "n", "d">>,
    <<"m", "e", "a", "n", "i", "n", "g">>, <<"c", "o", "n", "c", "e", "p", "t">>,
    <<"i", "d", "e", "a">> }

\* the alternatives of the CJK pattern, which has no i flag
AbstractKeywordsCJK ==
  { <<"U+611F", "U+89C9">>, <<"U+600E", "U+4E48">>, <<"U+4E3A", "U+4EC0", "U+4E48">>,
    <<"U+4EC0", "U+4E48">>, <<"U+610F", "U+601D">>, <<"U+6982", "U+5FF5">>,
    <<"U+60F3", "U+6CD5">> }

hasAbstractTerms(q) ==
  \/ \E w \in AbstractKeywords : ContainsWord(q, w, TRUE)
  \/ \E w \in AbstractKeywordsCJK : ContainsWord(q, w, FALSE)

\* the two tests of computeDynamicWeights for a query text
QueryClass(q) ==
  [hasSpecificTerms |-> hasSpecificTerms(q), hasAbstractTerms |-> hasAbstractTerms(q)]

\* no weights computed yet
NoWeights == [vectorWeight |-> 0, bm25Weight |-> 0]

\* ------------------------------------------------------------------------
\* shouldSkipRetrieval (adaptive-retrieval.ts)
\* ------------------------------------------------------------------------
\* FORCE_RETRIEVE_PATTERNS: the alternatives of the four \b(...)\b patterns
ForceWords ==
  { <<"r", "e", "m", "e", "m", "b", "e", "r">>, <<"r", "e", "c", "a", "l", "l">>,
    <<"f", "o", "r", "g", "o", "t">>, <<"m", "e", "m", "o", "r", "y">>,
    <<"m", "e", "m", "o", "r", "i", "e", "s">>,
    <<"l", "a", "s", "t", " ", "t", "i", "m", "e">>, <<"b", "e", "f", "o", "r", "e">>,
    <<"p", "r", "e", "v", "i", "o", "u", "s", "l", "y">>,
    <<"e", "a", "r", "l", "i", "e", "r">>, <<"y", "e", "s", "t", "e", "r", "d", "a", "y">>,
    <<"a", "g", "o">>, <<"m", "y", " ", "n", "a", "m", "e">>,
    <<"m", "y", " ", "e", "m", "a", "i", "l">>, <<"m", "y", " ", "p", "h", "o", "n", "e">>,
    <<"m", "y", " ", "a", "d", "d", "r", "e", "s", "s">>,
    <<"m", "y", " ", "b", "i", "r", "t", "h", "d", "a", "y">>,
    <<"m", "y", " ", "p", "r", "e", "f", "e", "r", "e", "n", "c", "e">>,
    <<"w", "h", "a", "t", " ", "d", "i", "d", " ", "i">>,
    <<"w", "h", "a", "t", " ", "d", "i", "d", " ", "w", "e">>,
    <<"d", "i", "d", " ", "i", " ", "t", "e", "l", "l">>,
    <<"d", "i", "d", " ", "i", " ", "s", "a", "y">>,
    <<"d", "i", "d", " ", "i", " ", "m", "e", "n", "t", "i", "o", "n">> }

\* FORCE_RETRIEVE_PATTERNS: the alternatives of the fifth pattern, as the
\* source file holds them
ForceSubstrings ==
  {
    <<"U+00E4", "U+00BD", "U+00A0", "U+00E8", "U+00AE", "U+00B0", "U+00E5", "U+00BE", "U+2014">>,
    <<"U+00E4", "U+00B9", "U+2039", "U+00E5", "U+2030">>,
    <<"U+00E4", "U+00B8", "U+0160", "U+00E6", "U+00AC", "U+00A1">>,
    <<"U+00E4", "U+00BB", "U+00A5", "U+00E5", "U+2030">>,
    <<"U+00E8", "U+00BF", "U+02DC", "U+00E8", "U+00AE", "U+00B0", "U+00E5", "U+00BE", "U+2014">>,
    <<"U+00E6", "U+00E5", "U+02C6", "U+00B0", "U+00E8", "U+00BF", "U+2021">>,
    <<"U+00E8", "U+00AF", "U+00B4", "U+00E8", "U+00BF", "U+2021">> }

MatchesForce(q) ==
  \/ \E w \in ForceWords : ContainsWord(q, w, TRUE)
  \/ \E w \in ForceSubstrings : Contains(q, w, TRUE)

\* SKIP_PATTERNS, greetings: /^(hi|...|what'?s up)\b/i
Greetings ==
  { <<"h", "i">>, <<"h", "e", "l", "l", "o">>, <<"h", "e", "y">>,
    <<"g", "r", "e", "e", "t", "i", "n", "g", "s">>, <<"y", "o">>, <<"s", "u", "p">>,
    <<"h", "o", "w", "d", "y">>, <<"w", "h", "a", "t", "s", " ", "u", "p">>,
    <<"w", "h", "a", "t", "'", "s", " ", "u", "p">> }

DayTimes ==
  { <<"m", "o", "r", "n", "i", "n", "g">>, <<"a", "f", "t", "e", "r", "n", "o", "o", "n">>,
    <<"e", "v", "e", "n", "i", "n", "g">>, <<"n", "i", "g", "h", "t">> }

\* the alternative good\s*(morning|afternoon|evening|night) of the greetings
GoodGreeting(q) ==
  /\ MatchesAt(q, 1, <<"g", "o", "o", "d">>, TRUE)
  /\ \E k \in 0..Len(q) :
        /\ \A j \in 5..(4 + k) : IsSpace(CharAt(q, j))
        /\ \E t \in DayTimes :
              MatchesAt(q, 5 + k, t, TRUE) /\ WordBoundary(q, 5 + k + Len(t))

\* SKIP_PATTERNS, commands
Commands ==
  { <<"r", "u", "n">>, <<"b", "u", "i", "l", "d">>, <<"t", "e", "s", "t">>, <<"l", "s">>,
    <<"c", "d">>, <<"g", "i", "t">>, <<"n", "p", "m">>, <<"p", "i", "p">>,
    <<"d", "o", "c", "k", "e", "r">>, <<"c", "u", "r", "l">>, <<"c", "a", "t">>,
    <<"g", "r", "e", "p">>, <<"f", "i", "n", "d">>, <<"m", "a", "k", "e">>,
    <<"s", "u", "d", "o">> }

\* SKIP_PATTERNS, affirmations, as the source file holds them
Affirmations ==
  { <<"y", "e", "s">>, <<"n", "o">>, <<"y", "e", "p">>, <<"n", "o", "p", "e">>, <<"o", "k">>,
    <<"o", "k", "a", "y">>, <<"s", "u", "r", "e">>, <<"f", "i", "n", "e">>,
    <<"t", "h", "a", "n", "k", "s">>, <<"t", "h", "a", "n", "k", " ", "y", "o", "u">>,
    <<"t", "h", "x">>, <<"t", "y">>, <<"g", "o", "t", " ", "i", "t">>,
    <<"u", "n", "d", "e", "r", "s", "t", "o", "o", "d">>, <<"c", "o", "o", "l">>,
    <<"n", "i", "c", "e">>, <<"g", "r", "e", "a", "t">>, <<"g", "o", "o", "d">>,
    <<"p", "e", "r", "f", "e", "c", "t">>, <<"a", "w", "e", "s", "o", "m", "e">>,
    <<"U+00F0", "U+0178", "U+2018">>, <<"U+00F0", "U+0178", "U+2018", "U+017D">>,
    <<"U+00E2", "U+0153", "U+2026">>, <<"U+00E2", "U+0152">> }

\* SKIP_PATTERNS, continuation prompts, as the source file holds them
Continuations ==
  { <<"g", "o", " ", "a", "h", "e", "a", "d">>, <<"c", "o", "n", "t", "i", "n", "u", "e">>,
    <<"p", "r", "o", "c", "e", "e", "d">>, <<"d", "o", " ", "i", "t">>,
    <<"s", "t", "a", "r", "t">>, <<"b", "e", "g", "i", "n">>, <<"n", "e", "x", "t">>,
    <<"U+00E5", "U+00AE", "U+017E", "U+00E6", "U+2013", "U+00BD">>,
    <<"U+00E5", "U+00BC", "U+20AC", "U+00E5", "U+00A7", "U+2039">>,
    <<"U+00E7", "U+00BB", "U+00A7", "U+00E7", "U+00BB", "U+00AD">>,
    <<"U+00E5", "U+00A5", "U+00BD", "U+00E7", "U+0161", "U+201E">>,
    <<"U+00E5", "U+00AF", "U+00E4", "U+00BB", "U+00A5">>, <<"U+00E8", "U+00A1", "U+0152">> }

\* \p{Emoji}, over the characters the queries are made of
IsEmoji(ch) == IsDigit(ch) \/ ch \in {"#", "*", "U+2705"}

MatchesSkip(q) ==
  \/ \E w \in Greetings : StartsWithWord(q, w, TRUE)
  \/ GoodGreeting(q)
  \/ CharAt(q, 1) = "/"
  \/ \E w \in Commands : StartsWithWord(q, w, TRUE)
  \/ \E w \in Affirmations : WholeMatch(q, w)
  \/ \E w \in Continuations : WholeMatch(q, w)
  \/ Len(q) >= 1 /\ \A i \in 1..Len(q) : IsEmoji(q[i]) \/ IsSpace(q[i])
  \/ MatchesAt(q, 1, <<"H", "E", "A", "R", "T", "B", "E", "A", "T">>, TRUE)
  \/ MatchesAt(q, 1, <<"[", "S", "y", "s", "t", "e", "m">>, TRUE)

\* /[\u4e00-\u9fff\u3040-\u309f\u30a0-\u30ff\uac00-\ud7af]/, over the
\* characters the queries are made of
IsCJK(ch) == ch \in {"U+4E3A", "U+4EC0", "U+4E48"}

\* the two question marks of the last rule, the second as the source file holds it
QuestionMarks == { <<"?">>, <<"U+00EF", "U+00BC", "U+0178">> }

\* the decision with the length check in front of the force-retrieve patterns
shouldSkipRetrieval_LengthFirst(query) ==
  LET trimmed == Trim(query)
      minLength == IF \E i \in 1..Len(trimmed) : IsCJK(trimmed[i]) THEN 6 ELSE 15
  IN IF Len(trimmed) < 5 THEN TRUE
     ELSE IF MatchesForce(trimmed) THEN FALSE
     ELSE IF MatchesSkip(trimmed) THEN TRUE
     ELSE IF Len(trimmed) < minLength /\ \A m \in QuestionMarks : ~Contains(trimmed, m, FALSE)
       THEN TRUE
     ELSE FALSE

shouldSkipRetrieval(query) ==
  LET trimmed == Trim(query)
      minLength == IF \E i \in 1..Len(trimmed) : IsCJK(trimmed[i]) THEN 6 ELSE 15
  IN IF MatchesForce(trimmed) THEN FALSE
     ELSE IF Len(trimmed) < 5 THEN TRUE
     ELSE IF MatchesSkip(trimmed) THEN TRUE
     ELSE IF Len(trimmed) < minLength /\ \A m \in QuestionMarks : ~Contains(trimmed, m, FALSE)
       THEN TRUE
     ELSE FALSE

\* ------------------------------------------------------------------------
\* The queries handed to the plugin: up to MaxWords words of a vocabulary,
\* separated by single spaces, with or without surrounding spaces, and the
\* example queries of the documentation
\* ------------------------------------------------------------------------
\* words that carry a specific-term feature: a capitalized word, an ISO date,
\* a path separator
SpecificVocabulary ==
  { <<"J", "o", "h", "n", "'", "s">>, <<"2", "0", "2", "4", "-", "0", "1", "-", "1", "5">>,
    <<"H", "o", "w">>, <<"/", "h", "e", "l", "p">> }

\* Latin abstract keywords
AbstractVocabulary ==
  { <<"w", "h", "y">>, <<"w", "h", "a", "t">> }

\* a CJK abstract keyword
CJKVocabulary ==
  { <<"U+4E3A", "U+4EC0", "U+4E48">> }

\* words with neither feature
PlainVocabulary ==
  { <<"e", "m", "a", "i", "l">>, <<"c", "o", "f", "f", "e", "e">>, <<"m", "y">>,
    <<"p", "r", "e", "f", "e", "r", "e", "n", "c", "e">>,
    <<"w", "h", "a", "t", "e", "v", "e", "r">>, <<"n", "a", "m", "e">>, <<"h", "i">>,
    <<"o", "k">>, <<"r", "e", "m", "e", "m", "b", "e", "r">>, <<"a", "g", "o">>, <<"U+2705">> }

Vocabulary == SpecificVocabulary \cup AbstractVocabulary \cup CJKVocabulary \cup PlainVocabulary

RECURSIVE JoinWords(_)
\* words.join(" ")
JoinWords(words) ==
  IF words = <<>> THEN <<>>
  ELSE IF Len(words) = 1 THEN words[1]
  ELSE words[1] \o <<" ">> \o JoinWords(Tail(words))

RECURSIVE SplitWords(_, _)
\* the words of a text: its maximal runs of characters other than spaces
SplitWords(q, word) ==
  IF q = <<>> THEN (IF word = <<>> THEN {} ELSE {word})
  ELSE IF IsSpace(Head(q))
    THEN (IF word = <<>> THEN {} ELSE {word}) \cup SplitWords(Tail(q), <<>>)
    ELSE SplitWords(Tail(q), Append(word, Head(q)))

Q_JohnsEmailDate == <<"J", "o", "h", "n", "'", "s", " ", "e", "m", "a", "i", "l", " ", "2", "0", "2", "4", "-", "0", "1", "-", "1", "5">>
Q_WhyDoesThisWork == <<"w", "h", "y", " ", "d", "o", "e", "s", " ", "t", "h", "i", "s", " ", "w", "o", "r", "k">>
Q_MyCoffeePreference == <<"m", "y", " ", "c", "o", "f", "f", "e", "e", " ", "p", "r", "e", "f", "e", "r", "e", "n", "c", "e">>
Q_HowDoesThisWork == <<"H", "o", "w", " ", "d", "o", "e", "s", " ", "t", "h", "i", "s", " ", "w", "o", "r", "k", "?">>
Q_CJKWhy == <<"U+4E3A", "U+4EC0", "U+4E48">>
Q_MyPreferenceForCoffee == <<"M", "y", " ", "p", "r", "e", "f", "e", "r", "e", "n", "c", "e", " ", "f", "o", "r", " ", "c", "o", "f", "f", "e", "e">>
Q_JohnsEmail == <<"J", "o", "h", "n", "'", "s", " ", "e", "m", "a", "i", "l">>
Q_IsoDate == <<"2", "0", "2", "4", "-", "0", "1", "-", "1", "5">>

ExampleQueries ==
  { Q_JohnsEmailDate, Q_WhyDoesThisWork, Q_MyCoffeePreference, Q_HowDoesThisWork,
    Q_CJKWhy, Q_MyPreferenceForCoffee, Q_JohnsEmail, Q_IsoDate }

QueryTexts ==
  ExampleQueries
  \cup { JoinWords(ws) : ws \in UNION { [1..n -> Vocabulary] : n \in 1..MaxWords } }
  \cup { <<" ">> \o JoinWords(ws) \o <<" ">> :
           ws \in UNION { [1..n -> Vocabulary] : n \in 1..MaxWords } }

\* ------------------------------------------------------------------------
\* MemoryStore.update (retriever.ts, store section)
\* ------------------------------------------------------------------------
\* .limit(1000) of the prefix lookup
ScanLimit == 1000

\* An optional argument is <<>> when absent and <<v>> when supplied.
\* supplied ?? stored
Coalesce(supplied, stored) == IF supplied = <<>> THEN stored ELSE supplied[1]

\* a new text together with what the full-text index reports for it
NewText == [text |-> PlainText(50), ftsHit |-> TRUE, ftsScore |-> 50000]

\* the updates argument; a new vector is kept as its distance to the query
Updates ==
  [text : {<<>>, <<NewText>>}, vector : {<<>>, <<2500>>}, importance : {<<>>, <<0>>},
   category : {<<>>, <<"decision">>}, metadata : {<<>>, <<"{k:1}">>}]

NoUpdates ==
  [text |-> <<>>, vector |-> <<>>, importance |-> <<>>, category |-> <<>>, metadata |-> <<>>]

\* the first eight characters of an id: ids 1 and 2 share theirs, and so do
\* all ids above those of the catalogue
IdPrefix(id) == IF id \in {1, 2} THEN "0a" ELSE IF id = 3 THEN "0b" ELSE "0c"

\* a table of more rows than the prefix lookup scans: ScanLimit rows with
\* ids of their own, then the row stored last
FillerRow(i) == Row(100 + i, "global", "fact", ONE, Now, PlainText(100), 1111, FALSE, 0)
LargeTable ==
  [i \in 1..ScanLimit |-> FillerRow(i)]
  \o <<Row(3, "agent:a", "preference", 5000, Now - 30, PlainText(105), 1111, TRUE, 0)>>

\* the id argument: a full UUID, a prefix of eight or more hex characters,
\* or a string that is neither
IdArgs ==
  { [kind |-> "full", full |-> i, prefix |-> ""] : i \in Ids }
  \cup { [kind |-> "prefix", full |-> 0, prefix |-> p] : p \in {"0a", "0b", "0c"} }
  \cup { [kind |-> "invalid", full |-> 0, prefix |-> ""] }

NoRequest ==
  [id |-> [kind |-> "none", full |-> 0, prefix |-> ""], updates |-> NoUpdates,
   scopeFilter |-> <<>>]

\* the rows the lookup of update can come back with: for a full id one of
\* the rows with that id, for a prefix all rows among the first ScanLimit
\* whose id starts with it
LookupRows(tbl, idArg) ==
  IF idArg.kind = "full"
    THEN LET Matches(r) == r.id = idArg.full
             rows == SelectSeq(tbl, Matches)
         IN IF rows = <<>> THEN {<<>>} ELSE { <<rows[i]>> : i \in 1..Len(rows) }
    ELSE LET StartsWith(r) == IdPrefix(r.id) = idArg.prefix
         IN { SelectSeq(Take(tbl, ScanLimit), StartsWith) }

\* the entry update builds from the row it found
UpdatedRow(row, updates) ==
  LET text == Coalesce(updates.text,
                       [text |-> row.text, ftsHit |-> row.ftsHit, ftsScore |-> row.ftsScore])
  IN [id |-> row.id,
      text |-> text.text,
      distance |-> Coalesce(updates.vector, row.distance),
      category |-> Coalesce(updates.category, row.category),
      scope |-> RowScope(row),
      importance |-> Coalesce(updates.importance, row.importance),
      timestamp |-> row.timestamp,
      metadata |-> Coalesce(updates.metadata, IF row.metadata = "" THEN "{}" ELSE row.metadata),
      ftsHit |-> text.ftsHit, ftsScore |-> text.ftsScore]

\* table.delete(`id = '...'`)
DeleteById(tbl, id) == LET Other(r) == r.id # id IN SelectSeq(tbl, Other)

\* what a call settles with: an entry, null, or an error
NoResult == [kind |-> "none", entry |-> <<>>]
Settled(kind, entry) == [kind |-> kind, entry |-> entry]

\* ------------------------------------------------------------------------
\* PersistentEmbeddingCache (index.ts, embedding cache section)
\* ------------------------------------------------------------------------
MaxSize == 2
MaxKeys == 3
MaxTime == 2

DEFAULT_CONFIG == [maxSize |-> 5000, ttlMinutes |-> 60, persistToDisk |-> TRUE]

\* the configurations a cache is constructed with
CacheConfigs == [maxSize : 1..MaxSize, ttlMinutes : {0, 1}, persistToDisk : BOOLEAN]

\* computeTextHash(text, task) of the texts that are embedded
CacheKeys == 1..MaxKeys

CacheEntry(textHash, lastAccessedAt) ==
  [textHash |-> textHash, lastAccessedAt |-> lastAccessedAt]

\* position of a key in the insertion-ordered memoryCache, 0 when absent
CacheIndex(cache, key) ==
  IF \E i \in 1..Len(cache) : cache[i].textHash = key
    THEN CHOOSE i \in 1..Len(cache) : cache[i].textHash = key
    ELSE 0

\* memoryCache.set(key, entry)
CacheMapSet(cache, entry) ==
  LET i == CacheIndex(cache, entry.textHash)
  IN IF i = 0 THEN Append(cache, entry) ELSE [cache EXCEPT ![i] = entry]

\* memoryCache.delete(key)
CacheMapDelete(cache, key) ==
  LET Other(e) == e.textHash # key IN SelectSeq(cache, Other)

\* evictOldest: the first entry, in insertion order, with the least
\* lastAccessedAt goes
evictOldest(cache) ==
  IF cache = <<>> THEN cache
  ELSE LET oldest == CHOOSE i \in 1..Len(cache) :
                        /\ \A j \in 1..Len(cache) :
                              cache[i].lastAccessedAt <= cache[j].lastAccessedAt
                        /\ \A j \in 1..(i - 1) :
                              cache[j].lastAccessedAt > cache[i].lastAccessedAt
       IN RemoveAt(cache, oldest)

\* set without the eviction loop
EvictWhile_Never(cache, size) == cache

RECURSIVE EvictWhile(_, _)
\* while (memoryCache.size >= size) evictOldest()
EvictWhile(cache, size) ==
  IF Len(cache) >= size THEN EvictWhile(evictOldest(cache), size) ELSE cache

RECURSIVE LoadRows(_, _, _)
\* the loop of loadFromDisk over the rows read
LoadRows(rows, cache, maxSize) ==
  IF rows = <<>> \/ Len(cache) >= maxSize THEN cache
  ELSE LoadRows(Tail(rows), CacheMapSet(cache, Head(rows)), maxSize)

\* the keys of the entries of a cache
CacheKeysOf(cache) == {cache[i].textHash : i \in 1..Len(cache)}

\* the rows of embedding_cache (text_hash is its primary key) without those
\* of the given keys, and with a row inserted or replaced
DiskDelete(disk, keys) == { r \in disk : r.textHash \notin keys }
DiskPut(disk, entry) == DiskDelete(disk, {entry.textHash}) \cup {entry}

\* what a statement that may fail leaves on disk: nothing is written without
\* a connection, and a failed statement (its error is caught) writes nothing
DiskWrite(db, disk, written) == IF db THEN {disk, written} ELSE {disk}

\* DELETE of each evicted key by itself: any of them may fail
DiskEvict(db, disk, evicted) ==
  IF db THEN { DiskDelete(disk, D) : D \in SUBSET evicted } ELSE {disk}

\* SELECT * FROM embedding_cache ORDER BY last_accessed_at DESC: the orders
\* the rows can come in
DiskRows(disk) ==
  { rows \in [1..Cardinality(disk) -> disk] :
      /\ \A i, j \in 1..Cardinality(disk) : i # j => rows[i] # rows[j]
      /\ \A i, j \in 1..Cardinality(disk) :
            i < j => rows[i].lastAccessedAt >= rows[j].lastAccessedAt }

\* the contents a disk cache can have when the process starts
Disks ==
  { d \in SUBSET { CacheEntry(k, t) : k \in CacheKeys, t \in 0..1 } :
      \A x, y \in d : x.textHash = y.textHash => x = y }

\* the last operation on the cache: none yet
NoOp == [op |-> "none", evicted |-> 0]

\* ------------------------------------------------------------------------
\* MemoryStore.ensureInitialized and doInitialize (retriever.ts, store section)
\* ------------------------------------------------------------------------
MaxAttempts == 2

\* the store operations that can be in flight at once
StoreOps == {1, 2, 3}

\* the awaits of doInitialize in their order: loadLanceDB and connect,
\* openTable or createTable, the sample query of the dimension check,
\* createFtsIndex
InitSteps == <<"connect", "open", "validate", "fts">>

\* a doInitialize call at its first await
NewAttempt == [status |-> "connect", fts |-> "undecided"]

\* doInitialize has not settled, or its catch handler has not run yet
InFlight(attempt) == attempt.status \in Range(InitSteps) \cup {"rejecting"}

\* the catch handler of ensureInitialized that leaves initPromise as it is
AfterCatch_Keep(promise) == promise

\* .catch((err) => { this.initPromise = null; throw err; })
AfterCatch(promise) == 0

\* ------------------------------------------------------------------------
\* MemoryScopeManager: scope names and access lists
\* ------------------------------------------------------------------------
\* a scope name is kept as its prefix and the identifier after the colon
ScopeName(prefix, identifier) == [prefix |-> prefix, identifier |-> identifier]

GlobalScope == ScopeName("global", "")

\* SCOPE_PATTERNS.AGENT(agentId)
AgentScope(agentId) == ScopeName("agent", agentId)

\* the agents, and the scope names the calls are made with: the last two
\* are not of a valid format (unknown prefix, empty identifier)
Agents == {"a", "b"}
ScopeNames ==
  { GlobalScope, AgentScope("a"), ScopeName("custom", "x"),
    ScopeName("team", "x"), ScopeName("agent", "") }

\* validateScopeFormat(scope).valid
validateScopeFormat(scope) ==
  \/ scope = GlobalScope
  \/ /\ scope.prefix \in {"agent", "custom", "project", "user"}
     /\ scope.identifier # ""

isBuiltInScope(scope) ==
  scope = GlobalScope \/ scope.prefix \in {"agent", "custom", "project", "user"}

\* an agent's entry in agentAccess: <<>> when there is none, else <<list>>
NoAccessList == <<>>

DEFAULT_SCOPE_CONFIG ==
  [definitions |-> {GlobalScope}, agentAccess |-> [agent \in Agents |-> NoAccessList]]

\* getAccessibleScopes(agentId) for an agent id that is given
getAccessibleScopes(definitions, access, agentId) ==
  IF access[agentId] # NoAccessList THEN access[agentId][1]
  ELSE IF AgentScope(agentId) \in definitions \/ isBuiltInScope(AgentScope(agentId))
    THEN <<GlobalScope, AgentScope(agentId)>>
    ELSE <<GlobalScope>>

isAccessible(definitions, access, scope, agentId) ==
  /\ validateScopeFormat(scope)
  /\ scope \in Range(getAccessibleScopes(definitions, access, agentId))

\* no management call yet
NoScopeOp == [op |-> "none", agentId |-> "", scope |-> GlobalScope, threw |-> FALSE]

\* ------------------------------------------------------------------------
\* The plugin's service and its backup timers (index.ts, registerService)
\* ------------------------------------------------------------------------
MaxStarts == 2
MaxRuns == 2

\* the calls of start, in the order they are made
StartCalls == 1..MaxStarts

\* the handles setTimeout and setInterval return to a call of start
TimeoutOf(c) == [handle |-> 2 * c - 1, kind |-> "timeout"]
IntervalOf(c) == [handle |-> 2 * c, kind |-> "interval"]

\* clearInterval(handle): what stays scheduled
clearInterval(scheduled, handle) == { t \in scheduled : t.handle # handle }

\* ------------------------------------------------------------------------
\* Initial states
\* ------------------------------------------------------------------------
ScopeFilters == { <<>>, <<"global">>, <<"agent:a">> }
Categories == { "none", "fact" }

Contexts ==
  [query : ClassQueries, limit : 1..MaxLimit, scopeFilter : ScopeFilters, category : Categories]

IdleContext ==
  [query |-> [hasSpecificTerms |-> FALSE, hasAbstractTerms |-> FALSE],
   limit |-> 1, scopeFilter |-> <<>>, category |-> "none"]

InitCalls ==
  /\ pc = [c \in Calls |-> "idle"]
  /\ vectorResults = [c \in Calls |-> <<>>]
  /\ bm25Results = [c \in Calls |-> <<>>]
  /\ results = [c \in Calls |-> <<>>]
  /\ fetch = [c \in Calls |-> "none"]
  /\ returned = [c \in Calls |-> <<>>]
  /\ rerankIn = [c \in Calls |-> <<>>]
  /\ rerankResponse = [c \in Calls |-> NoResponse]
  /\ cutoffDropped = [c \in Calls |-> {}]
  /\ lexical = [c \in Calls |-> "none"]
  /\ failedAt = [c \in Calls |-> "none"]

InitLogger ==
  /\ clock = 1
  /\ perfTimers = [t \in TimerIds |-> 0]
  /\ stats = InitStats
  /\ startedAt = [c \in Calls |-> 0]
  /\ duration = [c \in Calls |-> 0]

\* no prompt has been handed to the plugin
InitQueryIdle ==
  /\ queryText = <<>>
  /\ skipDecision = "none"
  /\ queryWeights = NoWeights

\* no update is under way
InitUpdateIdle ==
  /\ updPc = "idle"
  /\ updReq = NoRequest
  /\ updRow = <<>>
  /\ updResult = NoResult
  /\ tableBefore = <<>>

\* no store operation has been issued, and the store is taken as initialised
InitStoreIdle ==
  /\ tableOpen = TRUE
  /\ initPromise = 0
  /\ attempts = <<>>
  /\ opPc = [o \in StoreOps |-> "idle"]
  /\ opAwaits = [o \in StoreOps |-> 0]

\* createScopeManager(): the default scope configuration
InitScopeIdle ==
  /\ scopeDefinitions = DEFAULT_SCOPE_CONFIG.definitions
  /\ agentAccess = DEFAULT_SCOPE_CONFIG.agentAccess
  /\ scopeOp = NoScopeOp

\* no call of set is under way
InitSetIdle ==
  /\ setPc = "idle"
  /\ setKey = 0

\* register(api): backupTimer is null, the service is registered and not started
InitServiceIdle ==
  /\ backupTimer = 0
  /\ liveTimers = {}
  /\ startPc = [c \in StartCalls |-> "idle"]
  /\ serviceStopped = FALSE
  /\ backupRuns = 0
  /\ ranAfterStop = FALSE

InitMoreIdle == InitStoreIdle /\ InitScopeIdle /\ InitSetIdle /\ InitServiceIdle

\* no embedding cache has been constructed
InitCacheIdle ==
  /\ memoryCache = <<>>
  /\ cacheDisk = {}
  /\ cacheConfig = DEFAULT_CONFIG
  /\ cacheDb = FALSE
  /\ cacheInitialized = FALSE
  /\ cacheOp = NoOp
  /\ dateNow = 0

\* the plugin is registered, with a literal API key
InitRegistered ==
  /\ processEnv = {}
  /\ pluginConfig = [apiKey |-> <<Lit>>, baseURL |-> Absent]
  /\ registerPc = "ready"
  /\ parsedConfig = pluginConfig
  /\ embedderConfig = pluginConfig
  /\ client = pluginConfig

\* one retrieve call against any table, configuration and request
Init ==
  /\ table \in Tables
  /\ ftsIndexCreated \in BOOLEAN
  /\ config \in Configs
  /\ callers = {1}
  /\ \E ctx \in Contexts : context = [c \in Calls |-> IF c = 1 THEN ctx ELSE IdleContext]
  /\ InitCalls
  /\ InitLogger
  /\ InitQueryIdle
  /\ InitUpdateIdle
  /\ InitCacheIdle
  /\ InitMoreIdle
  /\ InitRegistered

\* ------------------------------------------------------------------------
\* MemoryRetriever.retrieve, one action per stretch of code between awaits
\* and per stage of fuseAndScore.  The stages of one call touch only that
\* call's locals; the logger is touched where the code touches it.
\* ------------------------------------------------------------------------
RetrieveTimer == "MemoryRetriever:retrieve"
RerankTimer == "MemoryRetriever:rerank"

\* retrieve is entered: perfStart, then the await of embedQuery
Start(c) ==
  /\ c \in callers
  /\ pc[c] = "idle"
  /\ perfTimers' = perfStart(perfTimers, RetrieveTimer, clock)
  /\ startedAt' = [startedAt EXCEPT ![c] = clock]
  /\ pc' = [pc EXCEPT ![c] = "embed"]
  /\ UNCHANGED <<auxVars, envVars, lexical, failedAt, storeVars, config, callers, context, vectorResults, bm25Results, results,
                 fetch, returned, rerankIn, rerankResponse, cutoffDropped, clock, stats, duration>>

\* embedder.embedQuery resolved
EmbedQuery(c) ==
  /\ pc[c] = "embed"
  /\ pc' = [pc EXCEPT ![c] = "vectorSearch"]
  /\ UNCHANGED <<auxVars, envVars, lexical, failedAt, storeVars, config, callers, context, vectorResults, bm25Results, results,
                 fetch, returned, rerankIn, rerankResponse, cutoffDropped, logVars>>

\* embedQuery or store.vectorSearch rejected: the catch block of retrieve
RetrieveThrows(c) ==
  /\ pc[c] \in {"embed", "vectorSearch"}
  /\ duration' = [duration EXCEPT ![c] = perfEndDuration(perfTimers, RetrieveTimer, clock)]
  /\ perfTimers' = perfEndTimers(perfTimers, RetrieveTimer)
  /\ pc' = [pc EXCEPT ![c] = "failed"]
  /\ failedAt' = [failedAt EXCEPT ![c] = pc[c]]
  /\ UNCHANGED <<auxVars, envVars, lexical, storeVars, config, callers, context, vectorResults, bm25Results, results,
                 fetch, returned, rerankIn, rerankResponse, cutoffDropped, clock, stats, startedAt>>

\* store.vectorSearch(queryVector, candidatePoolSize, minScore, scopeFilter, category):
\* the method takes four parameters, the fifth argument is dropped
VectorSearch(c) ==
  /\ pc[c] = "vectorSearch"
  /\ \E res \in vectorSearch(table, config.candidatePoolSize, config.minScore,
                             context[c].scopeFilter) :
        vectorResults' = [vectorResults EXCEPT ![c] = res]
  /\ pc' = [pc EXCEPT ![c] = "bm25Search"]
  /\ UNCHANGED <<auxVars, envVars, lexical, failedAt, storeVars, config, callers, context, bm25Results, results,
                 fetch, returned, rerankIn, rerankResponse, cutoffDropped, logVars>>

\* store.bm25Search(query, candidatePoolSize, scopeFilter, category) in hybrid
\* mode (three parameters, the fourth argument is dropped), [] otherwise
Bm25Search(c) ==
  /\ pc[c] = "bm25Search"
  /\ IF config.mode = "hybrid"
       THEN \E ftsOk \in BOOLEAN :
              /\ \E res \in bm25Search(table, ftsIndexCreated, ftsOk, config.candidatePoolSize,
                                       context[c].scopeFilter) :
                    bm25Results' = [bm25Results EXCEPT ![c] = res]
              /\ lexical' = [lexical EXCEPT ![c] =
                    IF ~ftsIndexCreated THEN "unavailable"
                    ELSE IF ~ftsOk THEN "threw" ELSE "ok"]
       ELSE /\ bm25Results' = [bm25Results EXCEPT ![c] = <<>>]
            /\ lexical' = [lexical EXCEPT ![c] = "off"]
  /\ pc' = [pc EXCEPT ![c] = "fuse"]
  /\ UNCHANGED <<auxVars, envVars, failedAt, storeVars, config, callers, context, vectorResults, results,
                 fetch, returned, rerankIn, rerankResponse, cutoffDropped, logVars>>

\* fuseAndScore: the two forEach loops into the combined map
Fusion(c) ==
  /\ pc[c] = "fuse"
  /\ results' = [results EXCEPT ![c] =
        Fuse(vectorResults[c], bm25Results[c], FusionWeights(config, context[c].query))]
  /\ pc' = [pc EXCEPT ![c] = "score"]
  /\ UNCHANGED <<auxVars, envVars, lexical, failedAt, storeVars, config, callers, context, vectorResults, bm25Results,
                 fetch, returned, rerankIn, rerankResponse, cutoffDropped, logVars>>

\* fuseAndScore: recency boost, importance weight, length normalization.
\* result.entry.text.length is a TypeError for an entry whose text is null;
\* nothing catches it before the catch block of retrieve, which rethrows.
Scoring(c) ==
  /\ pc[c] = "score"
  /\ IF \E i \in 1..Len(results[c]) : results[c][i].entry.text = NoText
       THEN /\ duration' = [duration EXCEPT ![c] =
                               perfEndDuration(perfTimers, RetrieveTimer, clock)]
            /\ perfTimers' = perfEndTimers(perfTimers, RetrieveTimer)
            /\ pc' = [pc EXCEPT ![c] = "failed"]
            /\ failedAt' = [failedAt EXCEPT ![c] = "score"]
            /\ UNCHANGED results
       ELSE /\ results' = [results EXCEPT ![c] =
                  [i \in 1..Len(results[c]) |-> ScoreStages(config, results[c][i])]]
            /\ pc' = [pc EXCEPT ![c] = "rerank"]
            /\ UNCHANGED <<failedAt, duration, perfTimers>>
  /\ UNCHANGED <<auxVars, envVars, lexical, storeVars, config, callers, context, vectorResults, bm25Results,
                 fetch, returned, rerankIn, rerankResponse, cutoffDropped, clock, stats, startedAt>>

\* the conditions under which applyReranking issues its request
RerankEnabled(c) ==
  /\ config.rerank = "cross-encoder"
  /\ config.rerankApiKey
  /\ Len(results[c]) > 0

\* reranking is off, has no key, or there is nothing to rerank
RerankSkip(c) ==
  /\ pc[c] = "rerank"
  /\ ~RerankEnabled(c)
  /\ pc' = [pc EXCEPT ![c] = "timeDecay"]
  /\ UNCHANGED <<auxVars, envVars, lexical, failedAt, storeVars, config, callers, context, vectorResults, bm25Results, results,
                 fetch, returned, rerankIn, rerankResponse, cutoffDropped, logVars>>

\* applyReranking up to "await fetch(...)": the request is sent without a
\* timeout or abort signal; the endpoint will answer ("pending") or not ("lost")
RerankFetch(c) ==
  /\ pc[c] = "rerank"
  /\ RerankEnabled(c)
  /\ perfTimers' = perfStart(perfTimers, RerankTimer, clock)
  /\ rerankIn' = [rerankIn EXCEPT ![c] = results[c]]
  /\ \E f \in {"pending", "lost"} : fetch' = [fetch EXCEPT ![c] = f]
  /\ pc' = [pc EXCEPT ![c] = "rerankWait"]
  /\ UNCHANGED <<auxVars, envVars, lexical, failedAt, storeVars, config, callers, context, vectorResults, bm25Results, results,
                 returned, rerankResponse, cutoffDropped, clock, stats, startedAt, duration>>

\* fetch settled: the rest of applyReranking, either branch
RerankSettle(c) ==
  /\ pc[c] = "rerankWait"
  /\ fetch[c] = "pending"
  /\ \E response \in RerankResponses(Len(results[c])) :
       /\ \E out \in RerankOutcomes(config, results[c], response) :
             results' = [results EXCEPT ![c] = out]
       /\ rerankResponse' = [rerankResponse EXCEPT ![c] = response]
       /\ stats' = IF RerankThrows(response) THEN stats
                   ELSE trackRerank(stats, Len(results[c]))
  /\ perfTimers' = perfEndTimers(perfTimers, RerankTimer)
  /\ fetch' = [fetch EXCEPT ![c] = "none"]
  /\ pc' = [pc EXCEPT ![c] = "timeDecay"]
  /\ UNCHANGED <<auxVars, envVars, lexical, failedAt, storeVars, config, callers, context, vectorResults, bm25Results,
                 returned, rerankIn, cutoffDropped, clock, startedAt, duration>>

\* fuseAndScore: results.forEach(result => result.score = applyTimeDecay(...))
TimeDecay(c) ==
  /\ pc[c] = "timeDecay"
  /\ results' = [results EXCEPT ![c] =
        [i \in 1..Len(results[c]) |->
           [results[c][i] EXCEPT !.score = applyTimeDecay(config, @, results[c][i].entry.timestamp)]]]
  /\ pc' = [pc EXCEPT ![c] = "hardCutoff"]
  /\ UNCHANGED <<auxVars, envVars, lexical, failedAt, storeVars, config, callers, context, vectorResults, bm25Results,
                 fetch, returned, rerankIn, rerankResponse, cutoffDropped, logVars>>

\* the cutoff taken against minScore instead of hardMinScore
PassesCutoff_MinScore(r) == GE(r.score, config.minScore)

\* results.filter(result => result.score >= hardMinScore)
PassesCutoff(r) == GE(r.score, config.hardMinScore)

HardCutoff(c) ==
  /\ pc[c] = "hardCutoff"
  /\ results' = [results EXCEPT ![c] = SelectSeq(results[c], PassesCutoff)]
  /\ cutoffDropped' = [cutoffDropped EXCEPT ![c] =
        {results[c][i].entry.id : i \in {j \in 1..Len(results[c]) : ~PassesCutoff(results[c][j])}}]
  /\ pc' = [pc EXCEPT ![c] = "mmr"]
  /\ UNCHANGED <<auxVars, envVars, lexical, failedAt, storeVars, config, callers, context, vectorResults, bm25Results,
                 fetch, returned, rerankIn, rerankResponse, logVars>>

\* results = this.applyMMR(results, query)
Diversity(c) ==
  /\ pc[c] = "mmr"
  /\ results' = [results EXCEPT ![c] = applyMMR(results[c])]
  /\ pc' = [pc EXCEPT ![c] = "final"]
  /\ UNCHANGED <<auxVars, envVars, lexical, failedAt, storeVars, config, callers, context, vectorResults, bm25Results,
                 fetch, returned, rerankIn, rerankResponse, cutoffDropped, logVars>>

\* retrieve after fuseAndScore: applyFinalProcessing, perfEnd, trackRetrieval, return
Finish(c) ==
  /\ pc[c] = "final"
  /\ \E out \in applyFinalProcessing(config, results[c], context[c].limit) :
        /\ results' = [results EXCEPT ![c] = out]
        /\ returned' = [returned EXCEPT ![c] = out]
  /\ LET d == perfEndDuration(perfTimers, RetrieveTimer, clock)
     IN /\ duration' = [duration EXCEPT ![c] = d]
        /\ stats' = trackRetrieval(stats, d)
  /\ perfTimers' = perfEndTimers(perfTimers, RetrieveTimer)
  /\ pc' = [pc EXCEPT ![c] = "done"]
  /\ UNCHANGED <<auxVars, envVars, lexical, failedAt, storeVars, config, callers, context, vectorResults, bm25Results,
                 fetch, rerankIn, rerankResponse, cutoffDropped, clock, startedAt>>

\* time passes while some call awaits a collaborator
Tick ==
  /\ clock < MaxClock
  /\ \E c \in Calls : pc[c] \in {"embed", "vectorSearch", "bm25Search", "rerankWait"}
  /\ clock' = clock + 1
  /\ UNCHANGED <<auxVars, envVars, storeVars, config, callers, callVars, perfTimers, stats, startedAt, duration>>

Next ==
  \/ \E c \in Calls :
       \/ Start(c)
       \/ EmbedQuery(c)
       \/ RetrieveThrows(c)
       \/ VectorSearch(c)
       \/ Bm25Search(c)
       \/ Fusion(c)
       \/ Scoring(c)
       \/ RerankSkip(c)
       \/ RerankFetch(c)
       \/ RerankSettle(c)
       \/ TimeDecay(c)
       \/ HardCutoff(c)
       \/ Diversity(c)
       \/ Finish(c)
  \/ Tick

Spec == Init /\ [][Next]_vars

\* ------------------------------------------------------------------------
\* Properties of one retrieve call (specification Spec)
\* ------------------------------------------------------------------------
Done(c) == pc[c] = "done"
IdsOf(rs) == [i \in 1..Len(rs) |-> rs[i].entry.id]
ScoresOf(rs) == [i \in 1..Len(rs) |-> rs[i].score]

\* the stored row an entry id belongs to
RowOfId(id) == CHOOSE row \in Range(table) : row.id = id

\* C1: a retrieve call with a positive limit returns at most limit elements
C1_AtMostLimit ==
  \A c \in Calls : Done(c) => Len(returned[c]) <= context[c].limit

\* C1 witness: two candidates survived every filter and the limit of 1 cut one
C1_Witness ==
  /\ Done(1)
  /\ context[1].limit = 1
  /\ Len(vectorResults[1]) = 2
  /\ cutoffDropped[1] = {}
  /\ Len(returned[1]) = 1

\* C2: every returned candidate's final score is at least hardMinScore
C2_AboveHardMinScore ==
  \A c \in Calls : Done(c) =>
     \A i \in 1..Len(returned[c]) : GE(returned[c][i].score, config.hardMinScore)

\* C2 witness: the cutoff removed a candidate and another one was returned
C2_Witness ==
  /\ Done(1)
  /\ cutoffDropped[1] # {}
  /\ Len(returned[1]) > 0

\* whether a rerank response is a failure: the request or the body failed, or
\* an item lacks a numeric score or an index
RerankFailed(response) ==
  \/ response.status \in {"network_error", "http_error", "bad_json", "null_body"}
  \/ /\ response.status = "ok"
     /\ \E i \in 1..Len(response.items) :
           IsNaN(response.items[i].score) \/ response.items[i].index = -1

\* the score a candidate had when applyReranking was called
PreRerankScore(c, id) ==
  rerankIn[c][CHOOSE i \in 1..Len(rerankIn[c]) : rerankIn[c][i].entry.id = id].score

\* C4: after a failed rerank call every candidate keeps its pre-rerank score
\* and the candidates go on ordered by those scores
C4_RerankFailsOpen ==
  \A c \in Calls :
     (pc[c] = "timeDecay" /\ RerankFailed(rerankResponse[c])) =>
        /\ Len(results[c]) = Len(rerankIn[c])
        /\ \A i \in 1..Len(results[c]) :
              results[c][i].score = PreRerankScore(c, results[c][i].entry.id)
        /\ \A i, j \in 1..Len(results[c]) :
              i < j => GE(results[c][i].score, results[c][j].score)

\* C7: with a non-empty scopeFilter, every entry that vectorSearch, bm25Search
\* or retrieve returns is stored under a scope of the filter, a row without a
\* scope counting as "global"
InFilter(c, r) ==
  /\ r.entry.scope \in Range(context[c].scopeFilter)
  /\ RowScope(RowOfId(r.entry.id)) \in Range(context[c].scopeFilter)

C7_ScopeIsolation ==
  \A c \in Calls : Len(context[c].scopeFilter) > 0 =>
     /\ \A i \in 1..Len(vectorResults[c]) : InFilter(c, vectorResults[c][i])
     /\ \A i \in 1..Len(bm25Results[c]) : InFilter(c, bm25Results[c][i])
     /\ \A i \in 1..Len(returned[c]) : InFilter(c, returned[c][i])

\* C7 witness: the table holds a row outside the filter and a row without a
\* scope (which the SQL predicate lets through), and the call returned a result
C7_Witness ==
  /\ Done(1)
  /\ context[1].scopeFilter = <<"agent:a">>
  /\ \E row \in Range(table) : row.scope = NullScope
  /\ Len(returned[1]) > 0

\* C8: with a category filter every returned entry has that category
C8_CategoryFilter ==
  \A c \in Calls : (Done(c) /\ context[c].category # "none") =>
     \A i \in 1..Len(returned[c]) : returned[c][i].entry.category = context[c].category

\* the raw score of id in a result list, 0 when the id is not in it
RawScore(list, id) ==
  IF \E i \in 1..Len(list) : list[i].entry.id = id
    THEN list[CHOOSE i \in 1..Len(list) : list[i].entry.id = id].score
    ELSE 0

\* the example of the specification: vector {1: 0.9, 2: 0.8}, lexical {2: 0.95},
\* weights {0.7, 0.3}
FusionExample(c) ==
  /\ IdsOf(vectorResults[c]) = <<1, 2>>
  /\ ScoresOf(vectorResults[c]) = <<9000, 8000>>
  /\ IdsOf(bm25Results[c]) = <<2>>
  /\ ScoresOf(bm25Results[c]) = <<9500>>
  /\ FusionWeights(config, context[c].query) = [vectorWeight |-> 7000, bm25Weight |-> 3000]

C17_LexicalDegrades ==
  \A c \in Calls :
     /\ lexical[c] \in {"unavailable", "threw"} =>
           /\ pc[c] # "failed"
           /\ bm25Results[c] = <<>>
           /\ pc[c] = "score" =>
                 results[c] = Fuse(vectorResults[c], <<>>, FusionWeights(config, context[c].query))
           /\ \A i \in 1..Len(results[c]) : results[c][i].sources.bm25 = NoSource
           /\ Done(c) => Range(IdsOf(returned[c])) \subseteq Range(IdsOf(vectorResults[c]))
     /\ pc[c] = "failed" => failedAt[c] \in {"embed", "vectorSearch"}
     /\ failedAt[c] # "none" => pc[c] = "failed"

\* C17 witness: the lexical query threw for a table with a full-text hit in
\* scope, and the call returned a result
C17_Witness ==
  /\ Done(1)
  /\ lexical[1] = "threw"
  /\ \E i \in 1..Len(table) :
        table[i].ftsHit /\ ScopeWhere(table[i], context[1].scopeFilter)
  /\ Len(returned[1]) > 0

\* C21: with timeDecayHalfLifeDays > 0 the time-decay stage multiplies every
\* score by a factor in [0.5, 1.0], whatever the entry's timestamp: it never
\* raises a score and never takes more than half of it
C21_DecayBounded ==
  [][ \A c \in Calls :
        (pc[c] = "timeDecay" /\ pc'[c] = "hardCutoff" /\ config.timeDecayHalfLifeDays > 0) =>
           \A i \in 1..Len(results[c]) :
              (~IsNaN(results[c][i].score) /\ results[c][i].score >= 0) =>
                 /\ results'[c][i].score <= results[c][i].score
                 /\ results'[c][i].score >= results[c][i].score \div 2 ]_vars

\* the stage a call enters after each stage of fuseAndScore and retrieve
StageAfter ==
  [fuse |-> {"score"}, score |-> {"rerank"}, rerank |-> {"rerankWait", "timeDecay"},
   rerankWait |-> {"timeDecay"}, timeDecay |-> {"hardCutoff"}, hardCutoff |-> {"mmr"},
   mmr |-> {"final"}, final |-> {"done"}]

PreRerankIndex(c, id) ==
  CHOOSE i \in 1..Len(rerankIn[c]) : rerankIn[c][i].entry.id = id

\* C23: after a rerank response that was read without an error, a candidate
\* whose index the response returns with a relevance score has the score
\* 0.6 * external + 0.4 * previous and a reranked provenance record, and a
\* candidate whose index the response does not name is as it was before
C23_RerankBlend ==
  \A c \in Calls :
     (pc[c] = "timeDecay" /\ rerankResponse[c].status = "ok") =>
        LET items == ParseRerank(config, rerankResponse[c])
        IN /\ Len(results[c]) = Len(rerankIn[c])
           /\ \A i \in 1..Len(results[c]) :
                 LET p == PreRerankIndex(c, results[c][i].entry.id)
                     before == rerankIn[c][p]
                     named == { k \in 1..Len(items) : items[k].index = p - 1 }
                 IN /\ named = {} => results[c][i] = before
                    /\ \A k \in named :
                          (named = {k} /\ ~IsNaN(items[k].score)) =>
                             /\ results[c][i].score =
                                  FAdd(FMul(items[k].score, 6000), FMul(before.score, 4000))
                             /\ results[c][i].sources.reranked = <<[score |-> items[k].score]>>
                             /\ results[c][i].entry = before.entry
                             /\ results[c][i].sources.vector = before.sources.vector
                             /\ results[c][i].sources.bm25 = before.sources.bm25

\* C23 witness: the response named the first of two candidates only
C23_Witness ==
  /\ pc[1] = "timeDecay"
  /\ rerankResponse[1].status = "ok"
  /\ ParseRerank(config, rerankResponse[1]) = <<RerankItem(0, 9000)>>
  /\ Len(rerankIn[1]) = 2
  /\ \E i \in 1..2 : results[1][i].sources.reranked = NoSource
  /\ \E i \in 1..2 : results[1][i].sources.reranked # NoSource

\* C24: diversity selection is greedy by score: its first pick scores at least
\* as high as every candidate it was given, and each later pick scores at
\* least as high as every candidate not yet picked whose maximum similarity
\* to the picks before it is below the threshold
C24_GreedyByScore ==
  [][ \A c \in Calls :
        (/\ pc[c] = "mmr" /\ pc'[c] = "final"
         /\ Len(results[c]) > 0
         /\ \A j \in 1..Len(results[c]) : ~IsNaN(results[c][j].score)) =>
           /\ Len(results'[c]) > 0
           /\ \A j \in 1..Len(results[c]) : GE(results'[c][1].score, results[c][j].score)
           /\ \A k \in 2..Len(results'[c]) :
                 LET picked == SubSeq(results'[c], 1, k - 1)
                 IN \A r \in Range(results[c]) \ Range(picked) :
                       LT(computeMaxSimilarity(r, picked), SimilarityThreshold) =>
                          GE(results'[c][k].score, r.score) ]_vars

\* ------------------------------------------------------------------------
\* Two concurrent retrieve calls on one MemoryRetriever (specification
\* ConcSpec) and the same under the fairness of the event loop (FairSpec)
\* ------------------------------------------------------------------------
\* both calls carry the same request against a table of the two "global" rows
ConcInit ==
  /\ table = SeqOfSet({r \in Catalogue : r.scope = "global"})
  /\ ftsIndexCreated = TRUE
  /\ config \in {cfg \in Configs : cfg.mode = "hybrid" /\ cfg.rerankProvider = "jina"}
  /\ callers = Calls
  /\ \E limit \in 1..MaxLimit :
        context = [c \in Calls |-> [IdleContext EXCEPT !.limit = limit]]
  /\ InitCalls
  /\ InitLogger
  /\ InitQueryIdle
  /\ InitUpdateIdle
  /\ InitCacheIdle
  /\ InitMoreIdle
  /\ InitRegistered

ConcSpec == ConcInit /\ [][Next]_vars

\* One call under the fairness of the event loop: every continuation that is
\* ready to run is eventually run; a response that never arrives enables nothing
FairInit ==
  /\ table = SeqOfSet({r \in Catalogue : r.scope = "global"})
  /\ ftsIndexCreated = TRUE
  /\ config \in {cfg \in Configs : cfg.mode = "hybrid"}
  /\ callers = {1}
  /\ \E limit \in 1..MaxLimit :
        context = [c \in Calls |-> [IdleContext EXCEPT !.limit = limit]]
  /\ InitCalls
  /\ InitLogger
  /\ InitQueryIdle
  /\ InitUpdateIdle
  /\ InitCacheIdle
  /\ InitMoreIdle
  /\ InitRegistered

FairSpec == FairInit /\ [][Next]_vars /\ WF_vars(Next)

\* C3: the returned list is sorted descending by final score, and candidates
\* of equal score come out in one order whatever order the search providers
\* returned them in: two calls with the same request and the same candidates
\* return the same sequence of ids
C3_SortedDeterministic ==
  /\ \A c \in Calls : Done(c) =>
        \A i, j \in 1..Len(returned[c]) :
           i < j => GE(returned[c][i].score, returned[c][j].score)
  /\ \A c, d \in Calls :
        ( /\ Done(c) /\ Done(d)
          /\ context[c] = context[d]
          /\ Range(vectorResults[c]) = Range(vectorResults[d])
          /\ Range(bm25Results[c]) = Range(bm25Results[d])
          /\ rerankResponse[c] = NoResponse /\ rerankResponse[d] = NoResponse )
        => IdsOf(returned[c]) = IdsOf(returned[d])

\* C5: a rerank request that is never answered does not hold the call up
\* forever: a call waiting for the rerank response eventually returns
C5_RerankBounded ==
  \A c \in Calls : (pc[c] = "rerankWait") ~> Done(c)

\* C6: whatever the interleaving, the duration a call measures and reports to
\* the statistics is the time since that call's own start
C6_Reentrant ==
  [][ \A c \in Calls :
        (pc[c] = "final" /\ pc'[c] = "done") => duration'[c] = clock - startedAt[c] ]_vars

\* ------------------------------------------------------------------------
\* Plugin registration: how the embedding credentials are resolved
\* (specification RegisterSpec)
\* ------------------------------------------------------------------------
NoConfig == [apiKey |-> Absent, baseURL |-> Absent]

RegisterInit ==
  /\ table = <<>>
  /\ ftsIndexCreated = TRUE
  /\ config = DEFAULT_RETRIEVAL_CONFIG
  /\ callers = {}
  /\ context = [c \in Calls |-> IdleContext]
  /\ InitCalls
  /\ InitLogger
  /\ InitQueryIdle
  /\ InitUpdateIdle
  /\ InitCacheIdle
  /\ InitMoreIdle
  /\ processEnv \in SUBSET EnvNames
  /\ pluginConfig \in [apiKey : ConfigStrings \cup {Absent},
                       baseURL : {s \in ConfigStrings : Len(s) = 1} \cup {Absent}]
  /\ registerPc = "parse"
  /\ parsedConfig = NoConfig
  /\ embedderConfig = NoConfig
  /\ client = NoConfig

\* parsePluginConfig: apiKey is taken as written (or from OPENAI_API_KEY when
\* it is not a string), baseURL goes through the plugin entry's resolveEnvVars
ParsePluginConfig ==
  /\ registerPc = "parse"
  /\ LET apiKey == IF pluginConfig.apiKey # Absent THEN pluginConfig.apiKey
                   ELSE IF "OPENAI_API_KEY" \in processEnv THEN <<Val("OPENAI_API_KEY")>>
                   ELSE <<>>
         throws == \/ apiKey = <<>>
                   \/ /\ pluginConfig.baseURL # Absent
                      /\ resolveEnvVarsThrows(processEnv, pluginConfig.baseURL)
     IN IF throws
          THEN /\ registerPc' = "failed"
               /\ UNCHANGED parsedConfig
          ELSE /\ registerPc' = "parsed"
               /\ parsedConfig' =
                    [apiKey |-> apiKey,
                     baseURL |-> IF pluginConfig.baseURL # Absent
                                   THEN resolveEnvVars(processEnv, pluginConfig.baseURL)
                                   ELSE Absent]
  /\ UNCHANGED <<auxVars, storeVars, config, callers, callVars, logVars,
                 processEnv, pluginConfig, embedderConfig, client>>

\* register: createEmbedder({ apiKey: resolveEnvVars(config.embedding.apiKey),
\* baseURL: config.embedding.baseURL, ... })
Register ==
  /\ registerPc = "parsed"
  /\ IF resolveEnvVarsThrows(processEnv, parsedConfig.apiKey)
       THEN /\ registerPc' = "failed"
            /\ UNCHANGED embedderConfig
       ELSE /\ registerPc' = "createEmbedder"
            /\ embedderConfig' = [apiKey |-> resolveEnvVars(processEnv, parsedConfig.apiKey),
                                  baseURL |-> parsedConfig.baseURL]
  /\ UNCHANGED <<auxVars, storeVars, config, callers, callVars, logVars,
                 processEnv, pluginConfig, parsedConfig, client>>

\* the Embedder constructor: both fields go through the env-resolver's
\* resolveEnvVars with strict: false
ConstructEmbedder ==
  /\ registerPc = "createEmbedder"
  /\ client' = [apiKey |-> resolveEnvVarsSafe(processEnv, embedderConfig.apiKey),
                baseURL |-> IF embedderConfig.baseURL # Absent
                              THEN resolveEnvVarsSafe(processEnv, embedderConfig.baseURL)
                              ELSE Absent]
  /\ registerPc' = "ready"
  /\ UNCHANGED <<auxVars, storeVars, config, callers, callVars, logVars,
                 processEnv, pluginConfig, parsedConfig, embedderConfig>>

RegisterNext == ParsePluginConfig \/ Register \/ ConstructEmbedder

RegisterSpec == RegisterInit /\ [][RegisterNext]_vars

\* the names whose values a configuration string carries
ValuesIn(value) == {value[i].name : i \in {j \in 1..Len(value) : value[j].kind = "val"}}

\* C9: the value of an environment variable that is not whitelisted, or that
\* matches a blocked pattern, is never substituted into the configuration the
\* plugin uses
C9_OnlyWhitelisted ==
  \A cfg \in {parsedConfig, embedderConfig, client} :
     \A name \in ValuesIn(cfg.apiKey) \cup ValuesIn(cfg.baseURL) :
        isAllowed(name) /\ ~isBlocked(name)

\* ------------------------------------------------------------------------
\* Retrieval over a table that importEntry has written to (specification
\* ImportSpec).  importEntry adds the entry it is given: it checks neither
\* that the id is new nor that the entry has a text.
\* ------------------------------------------------------------------------
\* an imported row without text
MalformedRow == Row(4, "global", "fact", ONE, Now, NoText, 1111, FALSE, 0)

\* tables in which an id occurs twice or a row has no text
ImportedTables ==
  { SeqOfSet(S) : S \in { T \in SUBSET (Catalogue \cup {MalformedRow}) :
        /\ Cardinality(T) \in 1..MaxRows
        /\ \/ MalformedRow \in T
           \/ \E x, y \in T : x # y /\ x.id = y.id } }

ImportInit ==
  /\ table \in ImportedTables
  /\ ftsIndexCreated \in BOOLEAN
  /\ config \in Configs
  /\ callers = {1}
  /\ \E limit \in 1..MaxLimit, scopeFilter \in ScopeFilters :
        context = [c \in Calls |->
           IF c = 1 THEN [IdleContext EXCEPT !.limit = limit, !.scopeFilter = scopeFilter]
           ELSE IdleContext]
  /\ InitCalls
  /\ InitLogger
  /\ InitQueryIdle
  /\ InitUpdateIdle
  /\ InitCacheIdle
  /\ InitMoreIdle
  /\ InitRegistered

ImportSpec == ImportInit /\ [][Next]_vars

\* a list in the order given by the permutation p
Permuted(list, p) == [i \in 1..Len(list) |-> list[p[i]]]

\* C11: the fused score of every id is the same for every permutation of the
\* vector list and every permutation of the lexical list, also when an id
\* occurs more than once in a list
C11_OrderIndependent ==
  \A c \in Calls : pc[c] = "score" =>
     LET w == FusionWeights(config, context[c].query)
     IN \A pv \in Orderings(Len(vectorResults[c])), pb \in Orderings(Len(bm25Results[c])) :
          LET fused == Fuse(Permuted(vectorResults[c], pv), Permuted(bm25Results[c], pb), w)
          IN \A id \in Range(IdsOf(results[c])) :
                RawScore(fused, id) = RawScore(results[c], id)

\* C12: no entry id occurs twice in the list retrieve returns
C12_UniqueIds ==
  \A c \in Calls : Done(c) =>
     \A i, j \in 1..Len(returned[c]) :
        i # j => returned[c][i].entry.id # returned[c][j].entry.id

\* C12 witness: an id came twice in the vector list and also in the lexical
\* list, and is returned once
C12_Witness ==
  /\ Done(1)
  /\ \E i, j \in 1..Len(vectorResults[1]) :
        i # j /\ vectorResults[1][i].entry.id = vectorResults[1][j].entry.id
  /\ \E i \in 1..Len(bm25Results[1]) :
        bm25Results[1][i].entry.id = vectorResults[1][1].entry.id
  /\ Len(returned[1]) = 1

\* whether a result list holds a candidate without text
HasMalformed(list) == \E i \in 1..Len(list) : list[i].entry.text = NoText

\* C18: a candidate without text does not fail the retrieval: the call goes
\* on to return, and what it returns are the well-formed candidates
C18_MalformedSkipped ==
  \A c \in Calls :
     (HasMalformed(vectorResults[c]) \/ HasMalformed(bm25Results[c])) =>
        /\ pc[c] # "failed"
        /\ Done(c) => ~HasMalformed(returned[c])

\* ------------------------------------------------------------------------
\* The plugin's handling of a prompt: the auto-recall hook asks
\* shouldSkipRetrieval, a retrieval classifies the query for its weights
\* (specification QuerySpec)
\* ------------------------------------------------------------------------
\* everything of the retriever and the store at rest
retrievalVars == <<storeVars, config, callers, callVars, logVars, envVars>>

InitRetrievalIdle ==
  /\ table = <<>>
  /\ ftsIndexCreated = TRUE
  /\ config = DEFAULT_RETRIEVAL_CONFIG
  /\ callers = {}
  /\ context = [c \in Calls |-> IdleContext]
  /\ InitCalls /\ InitLogger /\ InitRegistered

QueryInit ==
  /\ InitRetrievalIdle
  /\ queryText \in QueryTexts
  /\ skipDecision = "none"
  /\ queryWeights = NoWeights
  /\ InitUpdateIdle
  /\ InitCacheIdle
  /\ InitMoreIdle

\* before_agent_start: if (!event.prompt || shouldSkipRetrieval(event.prompt)) return
AutoRecallGate ==
  /\ skipDecision = "none"
  /\ skipDecision' = IF queryText = <<>> \/ shouldSkipRetrieval(queryText)
                       THEN "skip" ELSE "retrieve"
  /\ UNCHANGED <<retrievalVars, queryText, queryWeights, updateVars, cacheVars, moreVars>>

\* fuseAndScore: const weights = computeDynamicWeights(query)
ClassifyQuery ==
  /\ queryWeights = NoWeights
  /\ queryWeights' = computeDynamicWeights(QueryClass(queryText))
  /\ UNCHANGED <<retrievalVars, queryText, skipDecision, updateVars, cacheVars, moreVars>>

QueryNext == AutoRecallGate \/ ClassifyQuery

QuerySpec == QueryInit /\ [][QueryNext]_vars

Weights(vectorWeight, bm25Weight) == [vectorWeight |-> vectorWeight, bm25Weight |-> bm25Weight]

C15_ReadmeExamples ==
  queryWeights # NoWeights =>
     /\ queryText \in {Q_HowDoesThisWork, Q_CJKWhy} => queryWeights = Weights(9000, 1000)
     /\ queryText = Q_MyPreferenceForCoffee => queryWeights = Weights(7000, 3000)
     /\ queryText \in {Q_JohnsEmail, Q_IsoDate} => queryWeights = Weights(5000, 5000)

\* C16: a query that matches a force-retrieve pattern is never skipped,
\* whatever its length and whatever skip pattern it also matches
C16_ForceRetrieveFirst ==
  (skipDecision # "none" /\ MatchesForce(queryText)) => skipDecision = "retrieve"

\* C16 witness: retrieval goes ahead for a query that matches a force-retrieve
\* pattern and is shorter than five characters, and for one that also
\* matches a skip pattern
C16_Witness ==
  /\ skipDecision = "retrieve"
  /\ MatchesForce(queryText)
  /\ Len(Trim(queryText)) < 5 \/ MatchesSkip(Trim(queryText))

\* ------------------------------------------------------------------------
\* MemoryStore.update on a populated table (specification UpdateSpec)
\* ------------------------------------------------------------------------
\* the tables update is called on
UpdateTables == Tables \cup {LargeTable}

UpdateRequests == [id : IdArgs, updates : Updates, scopeFilter : ScopeFilters]

UpdateInit ==
  /\ table \in UpdateTables
  /\ ftsIndexCreated = TRUE
  /\ config = DEFAULT_RETRIEVAL_CONFIG
  /\ callers = {}
  /\ context = [c \in Calls |-> IdleContext]
  /\ InitCalls /\ InitLogger /\ InitRegistered
  /\ InitQueryIdle
  /\ updPc = "called"
  /\ updReq \in UpdateRequests
  /\ updRow = <<>>
  /\ updResult = NoResult
  /\ tableBefore = table
  /\ InitCacheIdle
  /\ InitMoreIdle

\* update up to its scope check: the id format, the lookup, the ambiguous
\* prefix, the empty answer and the scope permission
UpdateLookup ==
  /\ updPc = "called"
  /\ IF updReq.id.kind = "invalid"
       THEN /\ updPc' = "done"
            /\ updResult' = Settled("threw_format", <<>>)
            /\ UNCHANGED updRow
       ELSE \E rows \in LookupRows(table, updReq.id) :
              IF Len(rows) > 1
                THEN /\ updPc' = "done"
                     /\ updResult' = Settled("threw_ambiguous", <<>>)
                     /\ UNCHANGED updRow
              ELSE IF Len(rows) = 0
                THEN /\ updPc' = "done"
                     /\ updResult' = Settled("null", <<>>)
                     /\ UNCHANGED updRow
              ELSE IF /\ Len(updReq.scopeFilter) > 0
                      /\ RowScope(rows[1]) \notin Range(updReq.scopeFilter)
                THEN /\ updPc' = "done"
                     /\ updResult' = Settled("threw_scope", <<>>)
                     /\ UNCHANGED updRow
              ELSE /\ updPc' = "delete"
                   /\ updRow' = rows
                   /\ UNCHANGED updResult
  /\ UNCHANGED <<retrievalVars, queryVars, updReq, tableBefore, cacheVars, moreVars>>

\* await this.table.delete(`id = '...'`): done, or rejected by the storage
UpdateDelete ==
  /\ updPc = "delete"
  /\ \/ /\ table' = DeleteById(table, updRow[1].id)
        /\ updPc' = "add"
        /\ UNCHANGED updResult
     \/ /\ updPc' = "done"
        /\ updResult' = Settled("threw_io", <<>>)
        /\ UNCHANGED table
  /\ UNCHANGED <<ftsIndexCreated, config, callers, callVars, logVars, envVars, queryVars,
                 updReq, updRow, tableBefore, cacheVars, moreVars>>

\* await this.table.add([updated]); return updated
UpdateAdd ==
  /\ updPc = "add"
  /\ \/ /\ table' = Append(table, UpdatedRow(updRow[1], updReq.updates))
        /\ updResult' = Settled("entry", <<UpdatedRow(updRow[1], updReq.updates)>>)
     \/ /\ updResult' = Settled("threw_io", <<>>)
        /\ UNCHANGED table
  /\ updPc' = "done"
  /\ UNCHANGED <<ftsIndexCreated, config, callers, callVars, logVars, envVars, queryVars,
                 updReq, updRow, tableBefore, cacheVars, moreVars>>

UpdateNext == UpdateLookup \/ UpdateDelete \/ UpdateAdd

UpdateSpec == UpdateInit /\ [][UpdateNext]_vars

\* the id argument names the row
IdMatches(id, idArg) ==
  IF idArg.kind = "full" THEN id = idArg.full ELSE IdPrefix(id) = idArg.prefix

\* the stored or supplied value of a field
Supplied(arg, old, new) == IF arg = <<>> THEN new = old ELSE new = arg[1]

\* C19: an update that names exactly one row of the table, inside the
\* accessible scopes, stores and returns an entry with that row's id, scope
\* and timestamp in which exactly the supplied fields are replaced, and leaves
\* the other rows alone; one that names no row returns null, one that names a
\* row outside the accessible scopes throws, and both leave the table as it was
C19_UpdateFrame ==
  (updPc = "done" /\ updReq.id.kind \in {"full", "prefix"}) =>
    LET Matching == { i \in 1..Len(tableBefore) : IdMatches(tableBefore[i].id, updReq.id) }
        Accessible(row) ==
          Len(updReq.scopeFilter) = 0 \/ RowScope(row) \in Range(updReq.scopeFilter)
        Other(r) == ~IdMatches(r.id, updReq.id)
    IN /\ Matching = {} => (updResult.kind = "null" /\ table = tableBefore)
       /\ \A m \in Matching :
            (Matching = {m} /\ ~Accessible(tableBefore[m])) =>
               (updResult.kind = "threw_scope" /\ table = tableBefore)
       /\ \A m \in Matching :
            (Matching = {m} /\ Accessible(tableBefore[m])) =>
               /\ updResult.kind \in {"entry", "threw_io"}
               /\ updResult.kind = "entry" =>
                    LET old == tableBefore[m]
                        new == updResult.entry[1]
                        upd == updReq.updates
                    IN /\ new.id = old.id
                       /\ new.scope = RowScope(old)
                       /\ new.timestamp = old.timestamp
                       /\ IF upd.text = <<>> THEN new.text = old.text
                                             ELSE new.text = upd.text[1].text
                       /\ Supplied(upd.vector, old.distance, new.distance)
                       /\ Supplied(upd.importance, old.importance, new.importance)
                       /\ Supplied(upd.category, old.category, new.category)
                       /\ Supplied(upd.metadata, old.metadata, new.metadata)
                       /\ SelectSeq(table, Other) = SelectSeq(tableBefore, Other)
                       /\ table = Append(SelectSeq(tableBefore, Other), new)

\* C26: once an update has settled, whether it returned or threw, the table
\* holds exactly one row for every id it held before the call
C26_UpdateAtomic ==
  updPc = "done" =>
     \A id \in { tableBefore[i].id : i \in 1..Len(tableBefore) } :
        Cardinality({ i \in 1..Len(table) : table[i].id = id }) = 1

\* ------------------------------------------------------------------------
\* PersistentEmbeddingCache under its operations (specification CacheSpec)
\* ------------------------------------------------------------------------
\* new PersistentEmbeddingCache(config), next to the disk cache an earlier
\* process left
CacheInit ==
  /\ InitRetrievalIdle
  /\ InitQueryIdle
  /\ InitUpdateIdle
  /\ InitMoreIdle
  /\ memoryCache = <<>>
  /\ cacheDisk \in Disks
  /\ cacheConfig \in CacheConfigs
  /\ cacheDb = FALSE
  /\ cacheInitialized = FALSE
  /\ cacheOp = NoOp
  /\ dateNow = 1

othersVars == <<retrievalVars, queryVars, updateVars, moreVars>>

\* initialize(): opening the database or creating the tables may throw, which
\* turns persistence off; loadFromDisk stops at maxSize entries or at a row
\* it cannot read; cleanupOldEntries deletes the expired rows
CacheInitialize ==
  /\ ~cacheInitialized
  /\ cacheInitialized' = TRUE
  /\ cacheOp' = [op |-> "initialize", evicted |-> 0]
  /\ IF cacheConfig.persistToDisk
       THEN \/ /\ cacheConfig' = [cacheConfig EXCEPT !.persistToDisk = FALSE]
               /\ cacheDb' \in BOOLEAN
               /\ UNCHANGED <<memoryCache, cacheDisk>>
            \/ /\ cacheDb' = TRUE
               /\ \E rows \in DiskRows(cacheDisk) : \E n \in 0..Len(rows) :
                     memoryCache' = LoadRows(Take(rows, n), memoryCache, cacheConfig.maxSize)
               /\ cacheDisk' \in
                    IF cacheConfig.ttlMinutes <= 0 THEN {cacheDisk}
                    ELSE {cacheDisk,
                          { r \in cacheDisk :
                              ~(r.lastAccessedAt < dateNow - cacheConfig.ttlMinutes) }}
               /\ UNCHANGED cacheConfig
       ELSE UNCHANGED <<memoryCache, cacheDisk, cacheConfig, cacheDb>>
  /\ UNCHANGED <<othersVars, dateNow>>

\* get(text, task): a miss, an expired entry (deleted), or a hit that
\* refreshes lastAccessedAt in memory and on disk
CacheGet(key) ==
  LET i == CacheIndex(memoryCache, key)
  IN /\ cacheOp' = [op |-> "get", evicted |-> 0]
     /\ IF i = 0
          THEN UNCHANGED <<memoryCache, cacheDisk>>
        ELSE IF /\ cacheConfig.ttlMinutes > 0
                /\ dateNow - memoryCache[i].lastAccessedAt > cacheConfig.ttlMinutes
          THEN /\ memoryCache' = CacheMapDelete(memoryCache, key)
               /\ cacheDisk' \in DiskWrite(cacheDb, cacheDisk, DiskDelete(cacheDisk, {key}))
        ELSE /\ memoryCache' = CacheMapSet(memoryCache, CacheEntry(key, dateNow))
             /\ cacheDisk' \in
                  DiskWrite(cacheDb, cacheDisk,
                            IF \E r \in cacheDisk : r.textHash = key
                              THEN DiskPut(cacheDisk, CacheEntry(key, dateNow))
                              ELSE cacheDisk)
     /\ UNCHANGED <<othersVars, cacheConfig, cacheDb, cacheInitialized, dateNow>>

\* set(text, task, vector): nothing for a key already cached; otherwise the
\* oldest entries are evicted while the cache is at capacity, and the entry
\* is inserted in memory and on disk
CacheSet(key) ==
  /\ IF CacheIndex(memoryCache, key) # 0
       THEN /\ cacheOp' = [op |-> "set", evicted |-> 0]
            /\ UNCHANGED <<memoryCache, cacheDisk>>
       ELSE LET kept == EvictWhile(memoryCache, cacheConfig.maxSize)
                evicted == CacheKeysOf(memoryCache) \ CacheKeysOf(kept)
            IN /\ memoryCache' = CacheMapSet(kept, CacheEntry(key, dateNow))
               /\ \E disk \in DiskEvict(cacheDb, cacheDisk, evicted) :
                     cacheDisk' \in DiskWrite(cacheDb, disk,
                                              DiskPut(disk, CacheEntry(key, dateNow)))
               /\ cacheOp' = [op |-> "set", evicted |-> Cardinality(evicted)]
  /\ UNCHANGED <<othersVars, cacheConfig, cacheDb, cacheInitialized, dateNow>>

\* delete(key)
CacheDelete(key) ==
  /\ memoryCache' = CacheMapDelete(memoryCache, key)
  /\ cacheDisk' \in DiskWrite(cacheDb, cacheDisk, DiskDelete(cacheDisk, {key}))
  /\ cacheOp' = [op |-> "delete", evicted |-> 0]
  /\ UNCHANGED <<othersVars, cacheConfig, cacheDb, cacheInitialized, dateNow>>

\* shrinkToSize(targetSize): while (memoryCache.size > targetSize) evictOldest()
ShrinkToSize(targetSize) ==
  LET kept == EvictWhile(memoryCache, targetSize + 1)
      evicted == CacheKeysOf(memoryCache) \ CacheKeysOf(kept)
  IN /\ memoryCache' = kept
     /\ cacheDisk' \in DiskEvict(cacheDb, cacheDisk, evicted)
     /\ cacheOp' = [op |-> "shrinkToSize", evicted |-> Cardinality(evicted)]
     /\ UNCHANGED <<othersVars, cacheConfig, cacheDb, cacheInitialized, dateNow>>

\* clear()
CacheClear ==
  /\ memoryCache' = <<>>
  /\ cacheDisk' \in DiskWrite(cacheDb, cacheDisk, {})
  /\ cacheOp' = [op |-> "clear", evicted |-> 0]
  /\ UNCHANGED <<othersVars, cacheConfig, cacheDb, cacheInitialized, dateNow>>

\* close()
CacheClose ==
  /\ cacheDb
  /\ cacheDb' = FALSE
  /\ cacheOp' = [op |-> "close", evicted |-> 0]
  /\ UNCHANGED <<othersVars, memoryCache, cacheDisk, cacheConfig, cacheInitialized, dateNow>>

\* Date.now() moves on by a minute
CacheTick ==
  /\ dateNow < MaxTime
  /\ dateNow' = dateNow + 1
  /\ UNCHANGED <<othersVars, memoryCache, cacheDisk, cacheConfig, cacheDb,
                 cacheInitialized, cacheOp>>

CacheNext ==
  \/ CacheInitialize
  \/ \E key \in CacheKeys : CacheGet(key)
  \/ \E key \in CacheKeys : CacheSet(key)
  \/ \E key \in CacheKeys : CacheDelete(key)
  \/ \E targetSize \in 0..MaxSize : ShrinkToSize(targetSize)
  \/ CacheClear
  \/ CacheClose
  \/ CacheTick

CacheSpec == CacheInit /\ [][CacheNext]_vars

\* C20: the in-memory cache never holds more than maxSize entries
C20_AtMostMaxSize ==
  /\ Len(memoryCache) <= cacheConfig.maxSize
  /\ Cardinality(CacheKeysOf(memoryCache)) = Len(memoryCache)

\* C20 witness: a set on a full cache evicted an entry and left the cache full
C20_Witness ==
  /\ cacheOp.op = "set"
  /\ cacheOp.evicted > 0
  /\ Len(memoryCache) = cacheConfig.maxSize
  /\ cacheInitialized

\* ------------------------------------------------------------------------
\* Concurrent store operations on a new MemoryStore (specification
\* StoreInitSpec)
\* ------------------------------------------------------------------------
\* new MemoryStore(config): no connection, no table, no initPromise
StoreInit ==
  /\ table = <<>>
  /\ ftsIndexCreated = FALSE
  /\ config = DEFAULT_RETRIEVAL_CONFIG
  /\ callers = {}
  /\ context = [c \in Calls |-> IdleContext]
  /\ InitCalls /\ InitLogger /\ InitRegistered
  /\ InitQueryIdle
  /\ InitUpdateIdle
  /\ InitCacheIdle
  /\ tableOpen = FALSE
  /\ initPromise = 0
  /\ attempts = <<>>
  /\ opPc = [o \in StoreOps |-> "idle"]
  /\ opAwaits = [o \in StoreOps |-> 0]
  /\ InitScopeIdle
  /\ InitSetIdle
  /\ InitServiceIdle

initOthers ==
  <<table, config, callers, callVars, logVars, envVars, queryVars, updateVars, cacheVars,
    scopeVars, setVars, serviceVars>>

\* a store operation up to "await this.ensureInitialized()": the table is
\* there, or an initPromise is there and is awaited, or doInitialize is
\* called (it runs to its first await) and its promise is kept and awaited
EnsureInitialized(o) ==
  /\ opPc[o] = "idle"
  /\ IF tableOpen
       THEN /\ opPc' = [opPc EXCEPT ![o] = "ready"]
            /\ UNCHANGED <<initPromise, attempts, opAwaits>>
     ELSE IF initPromise # 0
       THEN /\ opPc' = [opPc EXCEPT ![o] = "waiting"]
            /\ opAwaits' = [opAwaits EXCEPT ![o] = initPromise]
            /\ UNCHANGED <<initPromise, attempts>>
     ELSE /\ Len(attempts) < MaxAttempts
          /\ attempts' = Append(attempts, NewAttempt)
          /\ initPromise' = Len(attempts) + 1
          /\ opPc' = [opPc EXCEPT ![o] = "waiting"]
          /\ opAwaits' = [opAwaits EXCEPT ![o] = Len(attempts) + 1]
  /\ UNCHANGED <<initOthers, ftsIndexCreated, tableOpen>>

\* doInitialize from one await to the next: connect, open or create the
\* table and check the vector dimension, each of which may throw
DoInitializeStep(a) ==
  /\ a <= Len(attempts)
  /\ attempts[a].status \in {"connect", "open", "validate"}
  /\ \E next \in {"rejecting",
                  CHOOSE s \in Range(InitSteps) :
                    \E i \in 1..(Len(InitSteps) - 1) :
                       InitSteps[i] = attempts[a].status /\ InitSteps[i + 1] = s} :
        attempts' = [attempts EXCEPT ![a].status = next]
  /\ UNCHANGED <<initOthers, ftsIndexCreated, tableOpen, initPromise, opPc, opAwaits>>

\* doInitialize from createFtsIndex to its end: the index is there or not
\* (the error is caught), then this.db and this.table are set
DoInitializeFinish(a) ==
  /\ a <= Len(attempts)
  /\ attempts[a].status = "fts"
  /\ \E created \in BOOLEAN :
        /\ ftsIndexCreated' = created
        /\ attempts' = [attempts EXCEPT
                          ![a].status = "resolved",
                          ![a].fts = IF created THEN "created" ELSE "unavailable"]
  /\ tableOpen' = TRUE
  /\ UNCHANGED <<initOthers, initPromise, opPc, opAwaits>>

\* the catch handler of ensureInitialized runs; the promise kept in
\* initPromise is rejected with it
CatchHandler(a) ==
  /\ a <= Len(attempts)
  /\ attempts[a].status = "rejecting"
  /\ initPromise' = AfterCatch(initPromise)
  /\ attempts' = [attempts EXCEPT ![a].status = "rejected"]
  /\ UNCHANGED <<initOthers, ftsIndexCreated, tableOpen, opPc, opAwaits>>

\* the awaited promise has settled: the operation goes on, or throws
OpResume(o) ==
  /\ opPc[o] = "waiting"
  /\ attempts[opAwaits[o]].status \in {"resolved", "rejected"}
  /\ opPc' = [opPc EXCEPT ![o] =
                IF attempts[opAwaits[o]].status = "resolved" THEN "ready" ELSE "failed"]
  /\ UNCHANGED <<initOthers, ftsIndexCreated, tableOpen, initPromise, attempts, opAwaits>>

\* the operation's own work on this.table!, a TypeError if it is null
OpTouch(o) ==
  /\ opPc[o] = "ready"
  /\ opPc' = [opPc EXCEPT ![o] = IF tableOpen THEN "done" ELSE "typeError"]
  /\ UNCHANGED <<initOthers, ftsIndexCreated, tableOpen, initPromise, attempts, opAwaits>>

\* the operation has settled; its caller issues another one
OpReturn(o) ==
  /\ opPc[o] \in {"done", "failed", "typeError"}
  /\ opPc' = [opPc EXCEPT ![o] = "idle"]
  /\ opAwaits' = [opAwaits EXCEPT ![o] = 0]
  /\ UNCHANGED <<initOthers, ftsIndexCreated, tableOpen, initPromise, attempts>>

StoreInitNext ==
  \/ \E o \in StoreOps : EnsureInitialized(o)
  \/ \E a \in 1..MaxAttempts : DoInitializeStep(a)
  \/ \E a \in 1..MaxAttempts : DoInitializeFinish(a)
  \/ \E a \in 1..MaxAttempts : CatchHandler(a)
  \/ \E o \in StoreOps : OpResume(o)
  \/ \E o \in StoreOps : OpTouch(o)
  \/ \E o \in StoreOps : OpReturn(o)

StoreInitSpec == StoreInit /\ [][StoreInitNext]_vars

\* C25: at most one doInitialize is in flight; an operation that arrives
\* while one runs awaits that attempt and starts none, and goes on or throws
\* as that attempt resolved or was rejected; an operation works on the table
\* only once an attempt has resolved, with the full-text decision taken; and
\* an operation never awaits an attempt that had already failed when it arrived
C25_SingleFlight ==
  [][ /\ Cardinality({ a \in 1..Len(attempts') : InFlight(attempts'[a]) }) <= 1
      /\ \A o \in StoreOps :
           /\ (opPc[o] = "idle" /\ opPc'[o] = "waiting") =>
                 /\ InFlight(attempts'[opAwaits'[o]])
                 /\ \A a \in 1..Len(attempts) :
                       InFlight(attempts[a]) => (opAwaits'[o] = a /\ attempts' = attempts)
           /\ (opPc[o] = "waiting" /\ opPc'[o] = "ready") =>
                 attempts[opAwaits[o]].status = "resolved"
           /\ (opPc[o] = "waiting" /\ opPc'[o] = "failed") =>
                 attempts[opAwaits[o]].status = "rejected"
           /\ opPc'[o] \in {"ready", "done"} =>
                 /\ tableOpen'
                 /\ \E a \in 1..Len(attempts') :
                       /\ attempts'[a].status = "resolved"
                       /\ attempts'[a].fts # "undecided"
           /\ opPc'[o] # "typeError" ]_vars

\* C25 witness: the first attempt failed, and two operations await the
\* second one
C25_Witness ==
  /\ Len(attempts) = 2
  /\ attempts[1].status = "rejected"
  /\ InFlight(attempts[2])
  /\ \E o1, o2 \in StoreOps :
        /\ o1 # o2
        /\ opPc[o1] = "waiting" /\ opAwaits[o1] = 2
        /\ opPc[o2] = "waiting" /\ opAwaits[o2] = 2

\* ------------------------------------------------------------------------
\* Management calls on a MemoryScopeManager (specification ScopeSpec)
\* ------------------------------------------------------------------------
\* the access lists a configuration gives an agent
ConfiguredAccess ==
  { NoAccessList, <<<<GlobalScope>>>>, <<<<ScopeName("custom", "x"), GlobalScope>>>> }

\* new MemoryScopeManager(config): the default definitions with those of the
\* configuration, and its agentAccess
ScopeInit ==
  /\ InitRetrievalIdle
  /\ InitQueryIdle
  /\ InitUpdateIdle
  /\ InitCacheIdle
  /\ InitStoreIdle
  /\ scopeDefinitions \in
       { DEFAULT_SCOPE_CONFIG.definitions \cup d : d \in SUBSET {ScopeName("custom", "x")} }
  /\ agentAccess \in [Agents -> ConfiguredAccess]
  /\ scopeOp = NoScopeOp
  /\ InitSetIdle
  /\ InitServiceIdle

scopeOthers ==
  <<retrievalVars, queryVars, updateVars, cacheVars, initVars, setVars, serviceVars>>

\* grantAccess(agentId, scope)
GrantAccess(agentId, scope) ==
  /\ IF ~validateScopeFormat(scope)
       THEN /\ scopeOp' = [op |-> "grantAccess", agentId |-> agentId, scope |-> scope,
                           threw |-> TRUE]
            /\ UNCHANGED agentAccess
       ELSE LET list == IF agentAccess[agentId] = NoAccessList THEN <<>>
                        ELSE agentAccess[agentId][1]
            IN /\ agentAccess' = [agentAccess EXCEPT ![agentId] =
                     <<IF scope \in Range(list) THEN list ELSE Append(list, scope)>>]
               /\ scopeOp' = [op |-> "grantAccess", agentId |-> agentId, scope |-> scope,
                              threw |-> FALSE]
  /\ UNCHANGED <<scopeOthers, scopeDefinitions>>

\* revokeAccess(agentId, scope)
RevokeAccess(agentId, scope) ==
  /\ agentAccess' =
       IF agentAccess[agentId] # NoAccessList
         THEN LET Other(s) == s # scope
              IN [agentAccess EXCEPT ![agentId] = <<SelectSeq(agentAccess[agentId][1], Other)>>]
         ELSE agentAccess
  /\ scopeOp' = [op |-> "revokeAccess", agentId |-> agentId, scope |-> scope, threw |-> FALSE]
  /\ UNCHANGED <<scopeOthers, scopeDefinitions>>

\* addScope(scope, definition)
AddScope(scope) ==
  /\ IF ~validateScopeFormat(scope)
       THEN /\ scopeOp' = [op |-> "addScope", agentId |-> "", scope |-> scope, threw |-> TRUE]
            /\ UNCHANGED scopeDefinitions
       ELSE /\ scopeDefinitions' = scopeDefinitions \cup {scope}
            /\ scopeOp' = [op |-> "addScope", agentId |-> "", scope |-> scope, threw |-> FALSE]
  /\ UNCHANGED <<scopeOthers, agentAccess>>

\* removeScope(scope); config.default is "global"
RemoveScope(scope) ==
  /\ IF scope = GlobalScope
       THEN /\ scopeOp' = [op |-> "removeScope", agentId |-> "", scope |-> scope,
                           threw |-> TRUE]
            /\ UNCHANGED <<scopeDefinitions, agentAccess>>
       ELSE LET Other(s) == s # scope
            IN /\ scopeDefinitions' = scopeDefinitions \ {scope}
               /\ agentAccess' =
                    [agent \in Agents |->
                       IF agentAccess[agent] = NoAccessList THEN NoAccessList
                       ELSE <<SelectSeq(agentAccess[agent][1], Other)>>]
               /\ scopeOp' = [op |-> "removeScope", agentId |-> "", scope |-> scope,
                              threw |-> FALSE]
  /\ UNCHANGED scopeOthers

ScopeNext ==
  \/ \E agentId \in Agents, scope \in ScopeNames : GrantAccess(agentId, scope)
  \/ \E agentId \in Agents, scope \in ScopeNames : RevokeAccess(agentId, scope)
  \/ \E scope \in ScopeNames : AddScope(scope)
  \/ \E scope \in ScopeNames : RemoveScope(scope)

ScopeSpec == ScopeInit /\ [][ScopeNext]_vars

\* the scope names isAccessible can be asked about
AskedScopes == ScopeNames \cup { AgentScope(agentId) : agentId \in Agents }

\* C27: a grantAccess that returns makes the granted scope accessible to the
\* agent, takes away none of the scopes that were accessible to the agent
\* before (the defaults of an agent without a list included), and changes
\* nothing when the scope was already in the agent's list
C27_GrantOnlyAdds ==
  [][ (scopeOp'.op = "grantAccess" /\ ~scopeOp'.threw) =>
        LET agentId == scopeOp'.agentId
            scope == scopeOp'.scope
        IN /\ isAccessible(scopeDefinitions', agentAccess', scope, agentId)
           /\ \A s \in AskedScopes :
                 isAccessible(scopeDefinitions, agentAccess, s, agentId) =>
                    isAccessible(scopeDefinitions', agentAccess', s, agentId)
           /\ (/\ agentAccess[agentId] # NoAccessList
               /\ scope \in Range(agentAccess[agentId][1])) => agentAccess' = agentAccess ]_vars

\* C28: after revokeAccess(agent, scope) has returned the scope is not
\* accessible to the agent, an agent without an access list and the scopes
\* 'global' and 'agent:<id>' included
C28_RevokeEffective ==
  [][ scopeOp'.op = "revokeAccess" =>
        ~isAccessible(scopeDefinitions', agentAccess', scopeOp'.scope, scopeOp'.agentId) ]_vars

\* ------------------------------------------------------------------------
\* PersistentEmbeddingCache.set, one iteration of its loop at a time
\* (specifications SetSpec and SetFairSpec)
\* ------------------------------------------------------------------------
\* the maxSize values a cache is constructed with: the constructor takes any
\* number
MinSize == 0 - 1
SetConfigs == [maxSize : MinSize..MaxSize, ttlMinutes : {0}, persistToDisk : BOOLEAN]

\* an initialized cache that loaded nothing
SetInit ==
  /\ InitRetrievalIdle
  /\ InitQueryIdle
  /\ InitUpdateIdle
  /\ InitStoreIdle
  /\ InitScopeIdle
  /\ InitSetIdle
  /\ InitServiceIdle
  /\ memoryCache = <<>>
  /\ cacheDisk = {}
  /\ cacheConfig \in SetConfigs
  /\ cacheDb = cacheConfig.persistToDisk
  /\ cacheInitialized = TRUE
  /\ cacheOp = NoOp
  /\ dateNow = 1

setOthers == <<retrievalVars, queryVars, updateVars, initVars, scopeVars, serviceVars>>

\* set(text, task, vector) up to its loop: returns at once for a cached key
SetBegin(key) ==
  /\ setPc = "idle"
  /\ IF CacheIndex(memoryCache, key) # 0
       THEN UNCHANGED setVars
       ELSE /\ setPc' = "loop"
            /\ setKey' = key
  /\ cacheOp' = [op |-> "set", evicted |-> 0]
  /\ UNCHANGED <<setOthers, memoryCache, cacheDisk, cacheConfig, cacheDb, cacheInitialized,
                 dateNow>>

\* one iteration of `while (memoryCache.size >= maxSize) evictOldest()`;
\* evictOldest deletes the oldest entry, if there is one, in memory and on disk
SetEvict ==
  /\ setPc = "loop"
  /\ Len(memoryCache) >= cacheConfig.maxSize
  /\ memoryCache' = evictOldest(memoryCache)
  /\ LET evicted == CacheKeysOf(memoryCache) \ CacheKeysOf(memoryCache')
     IN /\ cacheDisk' \in DiskEvict(cacheDb, cacheDisk, evicted)
        /\ cacheOp' = [cacheOp EXCEPT !.evicted = @ + Cardinality(evicted)]
  /\ UNCHANGED <<setOthers, setVars, cacheConfig, cacheDb, cacheInitialized, dateNow>>

\* the loop is left: the entry is inserted in memory and on disk, set returns
SetInsert ==
  /\ setPc = "loop"
  /\ ~(Len(memoryCache) >= cacheConfig.maxSize)
  /\ memoryCache' = CacheMapSet(memoryCache, CacheEntry(setKey, dateNow))
  /\ cacheDisk' \in DiskWrite(cacheDb, cacheDisk,
                              DiskPut(cacheDisk, CacheEntry(setKey, dateNow)))
  /\ setPc' = "idle"
  /\ setKey' = 0
  /\ UNCHANGED <<setOthers, cacheOp, cacheConfig, cacheDb, cacheInitialized, dateNow>>

\* Date.now() advances between calls
SetTick ==
  /\ setPc = "idle"
  /\ dateNow < MaxTime
  /\ dateNow' = dateNow + 1
  /\ UNCHANGED <<setOthers, setVars, memoryCache, cacheDisk, cacheConfig, cacheDb,
                 cacheInitialized, cacheOp>>

SetNext ==
  \/ \E key \in CacheKeys : SetBegin(key)
  \/ SetEvict
  \/ SetInsert
  \/ SetTick

SetSpec == SetInit /\ [][SetNext]_vars

\* set is synchronous code: once in its loop it keeps running
SetFairSpec == SetSpec /\ WF_vars(SetEvict) /\ WF_vars(SetInsert)

\* C29: a call of set that has entered its eviction loop leaves it and
\* returns, whatever maxSize the cache was constructed with
C29_SetTerminates == (setPc = "loop") ~> (setPc = "idle")

\* ------------------------------------------------------------------------
\* start and stop of the service, and its timers (specification ServiceSpec)
\* ------------------------------------------------------------------------
ServiceInit ==
  /\ InitRetrievalIdle
  /\ InitQueryIdle
  /\ InitUpdateIdle
  /\ InitCacheIdle
  /\ InitMoreIdle

serviceOthers ==
  <<retrievalVars, queryVars, updateVars, cacheVars, initVars, scopeVars, setVars>>

\* start() is called and waits for embedder.test() and retriever.test()
StartCall(c) ==
  /\ startPc[c] = "idle"
  /\ \A b \in 1..(c - 1) : startPc[b] # "idle"
  /\ startPc' = [startPc EXCEPT ![c] = "testing"]
  /\ serviceStopped' = FALSE
  /\ UNCHANGED <<serviceOthers, backupTimer, liveTimers, backupRuns, ranAfterStop>>

\* the tests have settled: setTimeout(runBackup, 60_000), whose handle is
\* dropped, and backupTimer = setInterval(runBackup, BACKUP_INTERVAL_MS)
StartSchedule(c) ==
  /\ startPc[c] = "testing"
  /\ startPc' = [startPc EXCEPT ![c] = "done"]
  /\ liveTimers' = liveTimers \cup {TimeoutOf(c), IntervalOf(c)}
  /\ backupTimer' = IntervalOf(c).handle
  /\ UNCHANGED <<serviceOthers, serviceStopped, backupRuns, ranAfterStop>>

\* a test has thrown: the catch clause logs, nothing is scheduled
StartFail(c) ==
  /\ startPc[c] = "testing"
  /\ startPc' = [startPc EXCEPT ![c] = "done"]
  /\ UNCHANGED <<serviceOthers, backupTimer, liveTimers, serviceStopped, backupRuns,
                 ranAfterStop>>

\* stop(): if (backupTimer) { clearInterval(backupTimer); backupTimer = null }
Stop ==
  /\ \E c \in StartCalls : startPc[c] # "idle"
  /\ liveTimers' =
       IF backupTimer # 0 THEN clearInterval(liveTimers, backupTimer) ELSE liveTimers
  /\ backupTimer' = 0
  /\ serviceStopped' = TRUE
  /\ UNCHANGED <<serviceOthers, startPc, backupRuns, ranAfterStop>>

\* a scheduled timer fires and calls runBackup(); a timeout fires once
TimerFire(c, kind) ==
  /\ backupRuns < MaxRuns
  /\ \E t \in liveTimers :
        /\ t \in {TimeoutOf(c), IntervalOf(c)}
        /\ t.kind = kind
        /\ liveTimers' = IF kind = "timeout" THEN liveTimers \ {t} ELSE liveTimers
  /\ backupRuns' = backupRuns + 1
  /\ ranAfterStop' = (ranAfterStop \/ serviceStopped)
  /\ UNCHANGED <<serviceOthers, backupTimer, startPc, serviceStopped>>

ServiceNext ==
  \/ \E c \in StartCalls : StartCall(c)
  \/ \E c \in StartCalls : StartSchedule(c)
  \/ \E c \in StartCalls : StartFail(c)
  \/ Stop
  \/ \E c \in StartCalls, kind \in {"timeout", "interval"} : TimerFire(c, kind)

ServiceSpec == ServiceInit /\ [][ServiceNext]_vars

====
